---- MODULE Spec2Model ----
(***************************************************************************)
(* The batch mutation engine of edir (src/edir.py): the Path entity, the   *)
(* unique-name resolver inc_path, the staging protocol rename_temp /       *)
(* restore_temp, the four passes of perform_actions, and the actions-file  *)
(* codec (write_actions_file / read_actionsfile).                          *)
(*                                                                         *)
(* Text is a sequence of one-character strings, so that formatting and     *)
(* parsing of actions-file lines are computed, not assumed.  A file name   *)
(* is such a text, a path (pathlib.Path) is the sequence of its name       *)
(* components relative to the working directory (<< >> is '.').            *)
(***************************************************************************)
EXTENDS Integers, Sequences, FiniteSets, TLC

\* ------------------------------------------------------------------ text
Arrow == "→"
Space == " "
Slash == "/"
Hash  == "#"
Tilde == "~"
CR    == "\r"
LF    == "\n"

\* The name of the holding directory ('.tmp-' + PROG), kept as one token.
TEMPDIR == <<".tmp-edir">>

\* Python's None where a path is expected and where a text is expected:
\* values comparable with paths, respectively texts, and equal to no path
\* and no text the model builds.
None == << <<"<None>">> >>

NoText == <<"<None>">>

\* ------------------------------------------------------------------ paths
\* pathlib: Path.parent ('.' is its own parent) and Path.name ('' for '.').
Parent(p) == IF p = <<>> THEN <<>> ELSE SubSeq(p, 1, Len(p) - 1)

Name(p) == IF p = <<>> THEN <<>> ELSE p[Len(p)]

\* pathlib: path / name (joining the empty name leaves the path as it is).
Join(p, n) == IF n = <<>> THEN p ELSE Append(p, n)

\* pathlib: path.with_name(n).
WithName(p, n) == Append(Parent(p), n)

\* q lies at or below p.
Under(p, q) == Len(q) >= Len(p) /\ SubSeq(q, 1, Len(p)) = p

\* str(pathlib.Path): the components joined by '/', '.' for the empty path.
RECURSIVE JoinNames(_)
JoinNames(p) ==
    IF Len(p) = 1 THEN p[1]
    ELSE p[1] \o <<Slash>> \o JoinNames(Tail(p))

PathStr(p) == IF p = <<>> THEN <<".">> ELSE JoinNames(p)

\* pathlib.Path(text): split at '/', drop empty and '.' components
\* (relative paths only; '..' is kept as a component, as pathlib does).
RECURSIVE SplitSlash(_, _)
SplitSlash(t, cur) ==
    IF t = <<>> THEN <<cur>>
    ELSE IF Head(t) = Slash THEN <<cur>> \o SplitSlash(Tail(t), <<>>)
    ELSE SplitSlash(Tail(t), Append(cur, Head(t)))

PathOf(t) == SelectSeq(SplitSlash(t, <<>>), LAMBDA n : n # <<>> /\ n # <<".">>)

\* ------------------------------------------------------------- filesystem
\* A filesystem state is a function from the paths that exist to nodes
\* [kind, data, ok]: ok is "writable" for a directory (mode 0o555 in the
\* tests when FALSE), "readable" for a file (mode 0o000 when FALSE) and
\* "the target exists" for a symbolic link (FALSE: the link dangles).
FileNode(d, ok) == [kind |-> "file", data |-> d, ok |-> ok]

DirNode(ok) == [kind |-> "dir", data |-> "", ok |-> ok]

LinkNode(ok) == [kind |-> "link", data |-> "", ok |-> ok]

Exists(f, p) == p \in DOMAIN f

IsDir(f, p) == p \in DOMAIN f /\ f[p].kind = "dir"

IsFile(f, p) == p \in DOMAIN f /\ f[p].kind = "file"

\* pathlib: Path.is_symlink(), and Path.exists(), which follows a link.
IsSymlink(f, p) == p \in DOMAIN f /\ f[p].kind = "link"

PathExists(f, p) == p \in DOMAIN f /\ (f[p].kind = "link" => f[p].ok)

\* New entries can be made in / removed from directory p.
Writable(f, p) == IsDir(f, p) /\ f[p].ok

Below(f, p) == {q \in DOMAIN f : Under(p, q)}

Kids(f, p) == {q \in DOMAIN f : Len(q) = Len(p) + 1 /\ Under(p, q)}

Restrict(f, D) == [q \in D |-> f[q]]

Ok(f) == [err |-> FALSE, fs |-> f]

Fail(f) == [err |-> TRUE, fs |-> f]

\* os.unlink
Unlink(f, p) ==
    IF IsFile(f, p) /\ Writable(f, Parent(p))
    THEN Ok(Restrict(f, DOMAIN f \ {p}))
    ELSE Fail(f)

\* os.rmdir
Rmdir(f, p) ==
    IF p # <<>> /\ IsDir(f, p) /\ Kids(f, p) = {} /\ Writable(f, Parent(p))
    THEN Ok(Restrict(f, DOMAIN f \ {p}))
    ELSE Fail(f)

\* shutil.rmtree without onerror: children first, the first error ends it
\* and leaves what was removed so far removed.  (The order of the children
\* is the directory's; it only matters when some child can and another
\* cannot be removed.)
RECURSIVE Rmtree(_, _)
Rmtree(f, p) ==
    IF ~IsDir(f, p) THEN Fail(f)
    ELSE IF Kids(f, p) = {} THEN Rmdir(f, p)
    ELSE LET q == CHOOSE k \in Kids(f, p) : TRUE
             r == IF f[q].kind = "dir" THEN Rmtree(f, q) ELSE Unlink(f, q)
         IN  IF r.err THEN r ELSE Rmtree(r.fs, p)

\* pathlib.Path.mkdir(parents=True, exist_ok=True)
RECURSIVE Mkdir(_, _)
Mkdir(f, p) ==
    IF Exists(f, p) THEN (IF IsDir(f, p) THEN Ok(f) ELSE Fail(f))
    ELSE LET r == IF Exists(f, Parent(p)) THEN Ok(f) ELSE Mkdir(f, Parent(p))
         IN  IF r.err THEN r
             ELSE IF Writable(r.fs, Parent(p))
                  THEN Ok((p :> DirNode(TRUE)) @@ r.fs)
                  ELSE Fail(r.fs)

\* The subtree of f at src, re-rooted at dst.
Moved(f, src, dst) ==
    [q \in {dst \o SubSeq(s, Len(src) + 1, Len(s)) : s \in Below(f, src)} |->
        f[src \o SubSeq(q, Len(dst) + 1, Len(q))]]

\* os.replace (pathlib.Path.replace): an existing file is overwritten by a
\* file, an existing empty directory by a directory.
Replace(f, src, dst) ==
    IF /\ src # <<>> /\ dst # <<>>
       /\ Exists(f, src)
       /\ Writable(f, Parent(src))
       /\ Writable(f, Parent(dst))
       /\ ~Under(src, dst) \/ src = dst
       /\ (f[src].kind = "dir" /\ Parent(src) # Parent(dst)) => f[src].ok
       /\ Exists(f, dst) =>
             \/ f[src].kind = "file" /\ f[dst].kind = "file"
             \/ f[src].kind = "dir" /\ f[dst].kind = "dir" /\ Kids(f, dst) = {}
    THEN IF src = dst THEN Ok(f)
         ELSE Ok(Moved(f, src, dst)
                 @@ Restrict(f, DOMAIN f \ (Below(f, src) \cup {dst})))
    ELSE Fail(f)

\* shutil.copy2(src, dst): into a directory dst the copy is dst/name(src);
\* an existing file is overwritten; copying a file onto itself is an error.
Copy2(f, src, dst) ==
    LET to == IF IsDir(f, dst) THEN Join(dst, Name(src)) ELSE dst
    IN  IF /\ IsFile(f, src) /\ f[src].ok
           /\ to # src
           /\ ~IsDir(f, to)
           /\ IF Exists(f, to) THEN f[to].ok ELSE Writable(f, Parent(to))
        THEN Ok((to :> f[src]) @@ f)
        ELSE Fail(f)

\* shutil.copytree(src, dst): dst must not exist (its missing parents are
\* made); an unreadable file is not copied and is the error raised at the
\* end, after everything else was copied.
Copytree(f, src, dst) ==
    IF ~IsDir(f, src) \/ Exists(f, dst) \/ Under(src, dst) THEN Fail(f)
    ELSE LET m == Mkdir(f, dst)
         IN  IF m.err THEN m
             ELSE LET all  == Moved(f, src, dst)
                      keep == {q \in DOMAIN all : all[q].kind = "dir" \/ all[q].ok}
                  IN  [err |-> keep # DOMAIN all,
                       fs  |-> Restrict(all, keep) @@ m.fs]

\* ------------------------------------------------------------ Path entity
\* The version-control tool (git): the working directory is a repository
\* when it holds '.git'; the tool refuses to work while the repository's
\* index is locked ('.git/index.lock' exists).
GitDir == << <<".git">> >>

GitLock == << <<".git">>, <<"index.lock">> >>

\* gitfiles (lines 499-504): the output of 'git ls-files', here every file
\* of the repository (directories are never listed).
gitfiles(f) ==
    IF IsDir(f, GitDir)
    THEN {q \in DOMAIN f : IsFile(f, q) /\ ~Under(GitDir, q)}
    ELSE {}

\* run('git mv -f "src" "dst"'): the error stream is empty (err FALSE) and
\* the object moved, or it is not and nothing moved.
git_mv(f, src, dst) ==
    IF Exists(f, GitLock) THEN Fail(f) ELSE Replace(f, src, dst)

\* run('git rm -f [-r] "path"'), the same way.
git_rm(f, path, recurse) ==
    IF Exists(f, GitLock) THEN Fail(f)
    ELSE IF recurse THEN Rmtree(f, path)
    ELSE Unlink(f, path)

\* Path.__init__: is_dir is probed once, when the entity is made; is_git
\* says whether the path is among gitfiles.
NewPath(f, p) ==
    [path |-> p, newpath |-> None, temppath |-> None, copies |-> <<>>,
     is_dir |-> IsDir(f, p), is_git |-> p \in gitfiles(f)]

\* A test for a free name that follows symbolic links only.
Unoccupied_following(f, path) == ~PathExists(f, path)

\* The test of inc_path (line 198): neither a link nor anything else is
\* at path.
Unoccupied(f, path) == ~IsSymlink(f, path) /\ ~PathExists(f, path)

\* Path.inc_path: path, else name~, name~1, name~2, ... beside it, the
\* first that nothing occupies.
RECURSIVE IncPathFrom(_, _, _, _)
IncPathFrom(f, path, name, c) ==
    IF Unoccupied(f, path) THEN path
    ELSE IncPathFrom(f,
            WithName(path, name \o (IF c <= 0 THEN <<Tilde>>
                                    ELSE <<Tilde, ToString(c)>>)),
            name, c + 1)

inc_path(f, path) == IncPathFrom(f, path, Name(path), 0)

\* remove(path, git, trash=False, recurse)
remove(f, path, git, recurse) ==
    IF ~recurse /\ IsDir(f, path) /\ Kids(f, path) # {} THEN Fail(f)
    ELSE IF git THEN git_rm(f, path, recurse)
    ELSE IF recurse THEN Rmtree(f, path)
    ELSE IF IsDir(f, path) THEN Rmdir(f, path)
    ELSE Unlink(f, path)

\* rename(pathsrc, pathdest, is_git): pathsrc.replace(pathdest), an error
\* of the primitive being an exception nobody catches (err); for a
\* version-controlled path 'git mv -f', an error of the tool being printed
\* (said) and nothing else.
rename(f, src, dst, is_git) ==
    IF is_git
    THEN LET r == git_mv(f, src, dst)
         IN  [err |-> FALSE, fs |-> r.fs, said |-> r.err]
    ELSE LET r == Replace(f, src, dst)
         IN  [err |-> r.err, fs |-> r.fs, said |-> FALSE]

\* A copy that moves its source to the target instead of duplicating it.
copy_by_move(f, p, dst) ==
    IF p.newpath = None THEN Fail(f) ELSE Replace(f, p.newpath, dst)

\* A copy taken from the entity's original path instead of its newpath.
copy_from_path(f, p, dst) ==
    IF p.newpath = None THEN Fail(f)
    ELSE IF p.is_dir THEN Copytree(f, p.path, dst)
    ELSE Copy2(f, p.path, dst)

\* Path.copy: from the entity's newpath, copytree for a directory entity.
copy(f, p, dst) ==
    IF p.newpath = None THEN Fail(f)
    ELSE IF p.is_dir THEN Copytree(f, p.newpath, dst)
    ELSE Copy2(f, p.newpath, dst)

\* A rename in a single pass: the object goes straight to its intended path,
\* over whatever is there, and nothing is staged.
rename_temp_unstaged(f, p, tds) ==
    LET r == rename(f, p.path, p.newpath, p.is_git)
    IN  [res |-> IF r.err THEN "raise" ELSE "ok", fs |-> r.fs, p |-> p,
         tempdirs |-> tds, said |-> r.said]

\* A rename_temp that keeps quiet when the holding directory cannot be made:
\* nothing is returned, so nothing is recorded.
rename_temp_silent(f, p, tds) ==
    LET tempdir == Join(Parent(p.newpath), TEMPDIR)
        m       == Mkdir(f, tempdir)
    IN  IF m.err
        THEN [res |-> "ok", fs |-> m.fs, p |-> p, tempdirs |-> tds,
              said |-> FALSE]
        ELSE LET tp == inc_path(m.fs, Join(tempdir, Name(p.newpath)))
                 r  == rename(m.fs, p.path, tp, p.is_git)
             IN  [res      |-> IF r.err THEN "raise" ELSE "ok",
                  fs       |-> r.fs,
                  p        |-> [p EXCEPT !.temppath = tp],
                  tempdirs |-> tds \cup {tempdir},
                  said     |-> r.said]

\* A rename_temp that does not note the holding directory it made.
rename_temp_forgetful(f, p, tds) ==
    LET tempdir == Join(Parent(p.newpath), TEMPDIR)
        m       == Mkdir(f, tempdir)
    IN  IF m.err
        THEN [res |-> "err", fs |-> m.fs, p |-> p, tempdirs |-> tds,
              said |-> FALSE]
        ELSE LET tp == inc_path(m.fs, Join(tempdir, Name(p.newpath)))
                 r  == rename(m.fs, p.path, tp, p.is_git)
             IN  [res      |-> IF r.err THEN "raise" ELSE "ok",
                  fs       |-> r.fs,
                  p        |-> [p EXCEPT !.temppath = tp],
                  tempdirs |-> tds,
                  said     |-> r.said]

\* A rename_temp that makes the holding directory without its parents
\* (mkdir without parents=True).
rename_temp_flat(f, p, tds) ==
    LET tempdir == Join(Parent(p.newpath), TEMPDIR)
        m       == IF Exists(f, Parent(tempdir)) THEN Mkdir(f, tempdir)
                   ELSE Fail(f)
    IN  IF m.err
        THEN [res |-> "err", fs |-> m.fs, p |-> p, tempdirs |-> tds,
              said |-> FALSE]
        ELSE LET tp == inc_path(m.fs, Join(tempdir, Name(p.newpath)))
                 r  == rename(m.fs, p.path, tp, p.is_git)
             IN  [res      |-> IF r.err THEN "raise" ELSE "ok",
                  fs       |-> r.fs,
                  p        |-> [p EXCEPT !.temppath = tp],
                  tempdirs |-> tds \cup {tempdir},
                  said     |-> r.said]

\* Path.rename_temp.  res is "err" (the error string is returned), "raise"
\* (rename raised) or "ok"; said tells whether rename printed an error of
\* the version-control tool.
rename_temp(f, p, tds) ==
    LET tempdir == Join(Parent(p.newpath), TEMPDIR)
        m       == Mkdir(f, tempdir)
    IN  IF m.err
        THEN [res |-> "err", fs |-> m.fs, p |-> p, tempdirs |-> tds,
              said |-> FALSE]
        ELSE LET tp == inc_path(m.fs, Join(tempdir, Name(p.newpath)))
                 r  == rename(m.fs, p.path, tp, p.is_git)
             IN  [res      |-> IF r.err THEN "raise" ELSE "ok",
                  fs       |-> r.fs,
                  p        |-> [p EXCEPT !.temppath = tp],
                  tempdirs |-> tds \cup {tempdir},
                  said     |-> r.said]

\* A restore_temp that also "restores" an entity that was never staged: the
\* object at its path is moved to the resolved newpath.
restore_temp_unstaged(f, p) ==
    IF p.newpath = None THEN [res |-> "false", fs |-> f, p |-> p, said |-> FALSE]
    ELSE LET from == IF p.temppath = None THEN p.path ELSE p.temppath
             np   == inc_path(f, p.newpath)
             r    == rename(f, from, np, p.is_git)
         IN  [res |-> IF r.err THEN "raise" ELSE "true",
              fs  |-> r.fs,
              p   |-> [p EXCEPT !.newpath = np],
              said |-> r.said]

\* Path.restore_temp.  res is "false" (nothing staged), "raise" or "true".
restore_temp(f, p) ==
    IF p.temppath = None THEN [res |-> "false", fs |-> f, p |-> p, said |-> FALSE]
    ELSE LET np == inc_path(f, p.newpath)
             r  == rename(f, p.temppath, np, p.is_git)
         IN  [res |-> IF r.err THEN "raise" ELSE "true",
              fs  |-> r.fs,
              p   |-> [p EXCEPT !.newpath = np],
              said |-> r.said]

\* Path.remove_temps: every holding directory is removed recursively, the
\* result of remove is not looked at.
RECURSIVE remove_temps(_, _)
remove_temps(f, tds) ==
    IF tds = {} THEN f
    ELSE LET t == CHOOSE x \in tds : TRUE
         IN  remove_temps(remove(f, t, FALSE, TRUE).fs, tds \ {t})

\* ------------------------------------------------------ actions-file codec
IsSpace(ch) == ch = Space \/ ch = "\t"

\* str.lstrip()
RECURSIVE LStrip(_)
LStrip(t) == IF t # <<>> /\ IsSpace(Head(t)) THEN LStrip(Tail(t)) ELSE t

\* str.rstrip('\n\r'): the text without the line terminators it ends with.
RStripEol(t) ==
    LET keep == {k \in 0..Len(t) : \A j \in (k + 1)..Len(t) : t[j] \in {CR, LF}}
    IN  SubSeq(t, 1, CHOOSE k \in keep : \A j \in keep : k <= j)

StartsWith(t, pre) == Len(t) >= Len(pre) /\ SubSeq(t, 1, Len(pre)) = pre

Drop(t, n) == SubSeq(t, n + 1, Len(t))

Count(t, ch) == Cardinality({k \in 1..Len(t) : t[k] = ch})

WorkdirKey == <<"w", "o", "r", "k", "d", "i", "r", ":">>

\* The first line create_actions_file writes: '# workdir: {os.getcwd()}'.
WorkdirLine(dir) == <<Hash, Space>> \o WorkdirKey \o <<Space>> \o dir

\* The lines create_actions_file writes (the explanatory block shortened to
\* its first line and its example line, which holds the arrow), ending in
\* the blank line.
Header(dir) ==
    << WorkdirLine(dir),
       <<Hash>>,
       <<Hash, Space, Space, "d", Space, "s", Space, Arrow, Space, "t">>,
       <<>> >>

\* A writer that leaves out the spaces around the arrow.
to_actions_file_tight(action, source_path, target_path) ==
    IF source_path = None THEN action
    ELSE IF target_path = None THEN action \o <<Space>> \o PathStr(source_path)
    ELSE action \o <<Space>> \o PathStr(source_path)
                \o <<Arrow>> \o PathStr(target_path)

\* to_actions_file: the line of one failed action.
to_actions_file(action, source_path, target_path) ==
    IF source_path = None THEN action
    ELSE IF target_path = None THEN action \o <<Space>> \o PathStr(source_path)
    ELSE action \o <<Space>> \o PathStr(source_path)
                \o <<Space, Arrow, Space>> \o PathStr(target_path)

\* write_actions_file: the header, then one line per failed action.
write_actions_file(dir, failed_actions) ==
    Header(dir) \o [k \in 1..Len(failed_actions) |->
                      to_actions_file(failed_actions[k][1], failed_actions[k][2],
                                      failed_actions[k][3])]

\* WORKING_DIR_REGEX = ^\s*#\s*workdir:\s*(\S+)$ : the directory matched, or
\* NoText.
WorkdirMatch(line) ==
    LET a == LStrip(line)
        b == IF a # <<>> /\ Head(a) = Hash THEN LStrip(Tail(a)) ELSE <<>>
        c == IF StartsWith(b, WorkdirKey) THEN LStrip(Drop(b, Len(WorkdirKey)))
             ELSE <<>>
    IN  IF c # <<>> /\ \A k \in 1..Len(c) : ~IsSpace(c[k]) THEN c ELSE NoText

\* A pattern whose groups leave out the spaces a name begins with.
ActionMatch_trimmed(line) ==
    IF ~(Len(line) >= 3 /\ line[1] \in {"d", "r", "c"} /\ line[2] = Space)
    THEN {}
    ELSE LET rest == Drop(line, 2)
             n    == Count(rest, Arrow)
         IN  IF n = 0
             THEN {[action |-> <<line[1]>>, from |-> LStrip(rest), to |-> NoText]}
             ELSE IF n > 1 THEN {}
             ELSE LET k == CHOOSE j \in 1..Len(rest) : rest[j] = Arrow
                  IN  IF /\ k >= 3 /\ k + 1 <= Len(rest)
                         /\ rest[k - 1] = Space /\ rest[k + 1] = Space
                      THEN {[action |-> <<line[1]>>,
                             from   |-> LStrip(SubSeq(rest, 1, k - 2)),
                             to     |-> LStrip(Drop(rest, k + 1))]}
                      ELSE {}

\* ACTION_LINE_REGEX = ^([drc]) ([^→]+)(?: → ([^→]*))?$ : the groups
\* [action, from, to] (to is NoText when the optional part is absent), or an
\* empty record set when the line does not match.
ActionMatch(line) ==
    IF ~(Len(line) >= 3 /\ line[1] \in {"d", "r", "c"} /\ line[2] = Space)
    THEN {}
    ELSE LET rest == Drop(line, 2)
             n    == Count(rest, Arrow)
         IN  IF n = 0 THEN {[action |-> <<line[1]>>, from |-> rest, to |-> NoText]}
             ELSE IF n > 1 THEN {}
             ELSE LET k == CHOOSE j \in 1..Len(rest) : rest[j] = Arrow
                  IN  IF /\ k >= 3 /\ k + 1 <= Len(rest)
                         /\ rest[k - 1] = Space /\ rest[k + 1] = Space
                      THEN {[action |-> <<line[1]>>,
                             from   |-> SubSeq(rest, 1, k - 2),
                             to     |-> Drop(rest, k + 1)]}
                      ELSE {}

\* Path.get(name): the index of the first entity whose path's last
\* component equals the text name, 0 when there is none.
get(paths, name) ==
    LET hits == {k \in 1..Len(paths) : Name(paths[k].path) = name}
    IN  IF hits = {} THEN 0 ELSE CHOOSE k \in hits : \A j \in hits : k <= j

\* A reader that takes a second provenance line like the first.
workdir_again_accepted(w, wd) == FALSE

\* Lines 338-339: the line is a provenance line and one was seen before.
workdir_again(w, wd) == w # NoText /\ wd

\* A reader that never finds the directories different.
workdir_differs_never(w, dir) == FALSE

\* Lines 346-349: the directory of the provenance line is not os.getcwd().
workdir_differs(w, dir) == w # NoText /\ w # dir

\* A reader that skips blank lines only.
skipped_blank_only(line) == line = <<>>

\* Lines 360-364: the stripped line is blank or a comment.
skipped(line) == line = <<>> \/ Head(line) = Hash

\* One line of read_actionsfile.  st is [paths, failed, stderr, wd, out,
\* code, asked]: wd is workdir_was_specified, out is "ok", "exit" (sys.exit,
\* with its code) or "raise" (an exception nobody catches), asked holds the
\* answers given to input() so far.  yes is the answer to the prompt: 'y'
\* or 'Y' when TRUE, anything else when FALSE.
read_line(f, dir, yes, st, raw) ==
    LET w    == WorkdirMatch(raw)
        line == LStrip(RStripEol(raw))
        m    == ActionMatch(line)
    IN  IF workdir_again(w, st.wd)
        THEN [st EXCEPT !.out = "exit", !.code = 2, !.stderr = @ + 1]
        ELSE IF workdir_differs(w, dir) /\ ~yes
        THEN [st EXCEPT !.out = "exit", !.code = 0, !.wd = TRUE,
                        !.asked = Append(@, yes)]
        ELSE LET s1 == [st EXCEPT !.wd = @ \/ w # NoText,
                                  !.asked = IF workdir_differs(w, dir)
                                            THEN Append(@, yes) ELSE @]
             IN  IF skipped(line) THEN s1
                 ELSE IF m = {}
                 THEN [s1 EXCEPT !.failed = Append(@, <<line, None, None>>),
                                 !.stderr = @ + 1 + (IF Count(line, Arrow) > 0
                                                     THEN 1 ELSE 0)]
                 ELSE LET g  == CHOOSE x \in m : TRUE
                          a  == g.action[1]
                      IN  IF a # "d" /\ g.to = NoText
                          THEN [s1 EXCEPT !.out = "raise"]
                          ELSE LET to == IF a # "d" THEN PathOf(g.to) ELSE None
                                   k0 == get(s1.paths, g.from)
                               IN  IF k0 = 0 /\ ~Exists(f, PathOf(g.from))
                                   THEN [s1 EXCEPT !.out = "exit", !.code = 1]
                                   ELSE LET ps == IF k0 = 0
                                                  THEN Append(s1.paths,
                                                              NewPath(f, PathOf(g.from)))
                                                  ELSE s1.paths
                                            k  == IF k0 = 0 THEN Len(ps) ELSE k0
                                            p  == ps[k]
                                            q  == IF a = "r"
                                                  THEN [p EXCEPT !.newpath = to]
                                                  ELSE IF a = "c"
                                                  THEN [p EXCEPT
                                                         !.newpath =
                                                            IF @ = None
                                                            THEN PathOf(g.from)
                                                            ELSE @,
                                                         !.copies = Append(@, to)]
                                                  ELSE p
                                        IN  [s1 EXCEPT !.paths = [ps EXCEPT ![k] = q]]

\* Path.read_actionsfile: the lines in order, until one ends the process.
RECURSIVE read_actionsfile(_, _, _, _, _)
read_actionsfile(f, dir, yes, st, lines) ==
    IF lines = <<>> \/ st.out # "ok" THEN st
    ELSE read_actionsfile(f, dir, yes, read_line(f, dir, yes, st, Head(lines)),
                          Tail(lines))

\* --------------------------------------------------------- perform_actions
D == <<"d">>
R == <<"r">>
C == <<"c">>

\* The result of one entity's step of a pass: the filesystem, the entity,
\* the holding directories, what to_failed_actions and applied_actions got,
\* how many errors of the version-control tool rename printed, and whether
\* an exception ended the run.  log is the observer's record of what became
\* of each requested operation ([op, path, to, ok]).
Step(f, p, tds) ==
    [fs |-> f, p |-> p, tempdirs |-> tds, applied |-> <<>>, failed |-> <<>>,
     log |-> <<>>, raised |-> FALSE, said |-> 0]

Entry(op, p, to, ok) == [op |-> op, path |-> p.path, to |-> to, ok |-> ok]

\* A Pass 1 for which a holding directory that cannot be made is fatal.
pass1_fatal(f, p, tds) ==
    LET s0 == Step(f, p, tds)
    IN  IF p.is_dir /\ ~IsDir(f, p.path)
        THEN [s0 EXCEPT !.raised = TRUE]
        ELSE IF p.newpath # None
        THEN IF p.newpath # p.path
             THEN LET t == rename_temp(f, p, tds)
                  IN  [s0 EXCEPT !.fs = t.fs, !.p = t.p,
                          !.tempdirs = t.tempdirs,
                          !.raised = (t.res # "ok"),
                          !.said = IF t.said THEN 1 ELSE 0,
                          !.log = IF t.res # "ok"
                                  THEN <<Entry(R, p, p.newpath, FALSE)>>
                                  ELSE <<>>]
             ELSE s0
        ELSE IF ~p.is_dir
        THEN LET r == remove(f, p.path, p.is_git, FALSE)
             IN  IF r.err
                 THEN [s0 EXCEPT !.fs = r.fs,
                          !.failed = << <<D, p.path, None>> >>,
                          !.log = <<Entry(D, p, None, FALSE)>>]
                 ELSE [s0 EXCEPT !.fs = r.fs,
                          !.applied = << <<D, p.path, None>> >>,
                          !.log = <<Entry(D, p, None, TRUE)>>]
        ELSE s0

\* A Pass 1 that moves each entity to its final destination as soon as it is
\* staged, before the entities after it have left their names.
pass1_eager(f, p, tds) ==
    LET s0 == Step(f, p, tds)
    IN  IF p.is_dir /\ ~IsDir(f, p.path)
        THEN [s0 EXCEPT !.raised = TRUE]
        ELSE IF p.newpath # None
        THEN IF p.newpath # p.path
             THEN LET t == rename_temp(f, p, tds)
                  IN  IF t.res = "err"
                      THEN [s0 EXCEPT !.fs = t.fs,
                               !.failed = << <<R, p.path, p.newpath>> >>,
                               !.log = <<Entry(R, p, p.newpath, FALSE)>>]
                      ELSE IF t.res = "raise"
                      THEN [s0 EXCEPT !.fs = t.fs, !.p = t.p,
                               !.tempdirs = t.tempdirs, !.raised = TRUE,
                               !.log = <<Entry(R, p, p.newpath, FALSE)>>]
                      ELSE LET u == restore_temp(t.fs, t.p)
                           IN  [s0 EXCEPT !.fs = u.fs,
                                   !.p = [u.p EXCEPT !.temppath = None],
                                   !.tempdirs = t.tempdirs,
                                   !.raised = (u.res = "raise"),
                                   !.applied = IF u.res = "true"
                                               THEN << <<R, p.path, u.p.newpath>> >>
                                               ELSE <<>>,
                                   !.log = <<Entry(R, p, p.newpath,
                                                   u.res = "true")>>]
             ELSE s0
        ELSE IF ~p.is_dir
        THEN LET r == remove(f, p.path, p.is_git, FALSE)
             IN  IF r.err
                 THEN [s0 EXCEPT !.fs = r.fs,
                          !.failed = << <<D, p.path, None>> >>,
                          !.log = <<Entry(D, p, None, FALSE)>>]
                 ELSE [s0 EXCEPT !.fs = r.fs,
                          !.applied = << <<D, p.path, None>> >>,
                          !.log = <<Entry(D, p, None, TRUE)>>]
        ELSE s0

\* Pass 1, the body of the loop for one entity (lines 590-604).
pass1(f, p, tds) ==
    LET s0 == Step(f, p, tds)
    IN  IF p.is_dir /\ ~IsDir(f, p.path)
        THEN [s0 EXCEPT !.raised = TRUE]
        ELSE IF p.newpath # None
        THEN IF p.newpath # p.path
             THEN LET t == rename_temp(f, p, tds)
                  IN  IF t.res = "err"
                      THEN [s0 EXCEPT !.fs = t.fs,
                               !.failed = << <<R, p.path, p.newpath>> >>,
                               !.log = <<Entry(R, p, p.newpath, FALSE)>>]
                      ELSE [s0 EXCEPT !.fs = t.fs, !.p = t.p,
                               !.tempdirs = t.tempdirs,
                               !.raised = (t.res = "raise"),
                               !.said = IF t.said THEN 1 ELSE 0,
                               !.log = IF t.res = "raise"
                                       THEN <<Entry(R, p, p.newpath, FALSE)>>
                                       ELSE <<>>]
             ELSE s0
        ELSE IF ~p.is_dir
        THEN LET r == remove(f, p.path, p.is_git, FALSE)
             IN  IF r.err
                 THEN [s0 EXCEPT !.fs = r.fs,
                          !.failed = << <<D, p.path, None>> >>,
                          !.log = <<Entry(D, p, None, FALSE)>>]
                 ELSE [s0 EXCEPT !.fs = r.fs,
                          !.applied = << <<D, p.path, None>> >>,
                          !.log = <<Entry(D, p, None, TRUE)>>]
        ELSE s0

\* A Pass 2 that removes directories with their content whether or not
\* recursive deletion was asked for.
pass2_recursive(f, p, tds, recurse) ==
    LET s0 == Step(f, p, tds)
    IN  IF p.is_dir /\ p.newpath = None
        THEN LET r == remove(f, p.path, p.is_git, TRUE)
             IN  IF ~r.err
                 THEN [s0 EXCEPT !.fs = r.fs, !.p = [p EXCEPT !.is_dir = FALSE],
                          !.applied = << <<D, p.path, None>> >>,
                          !.log = <<Entry(D, p, None, TRUE)>>]
                 ELSE [s0 EXCEPT !.fs = r.fs]
        ELSE s0

\* A Pass 2 that does not reclassify the directory it removed, so that
\* Pass 4 comes to it again.
pass2_keeps_dir(f, p, tds, recurse) ==
    LET s0 == Step(f, p, tds)
    IN  IF p.is_dir /\ p.newpath = None
        THEN LET r == remove(f, p.path, p.is_git, recurse)
             IN  IF ~r.err
                 THEN [s0 EXCEPT !.fs = r.fs,
                          !.applied = << <<D, p.path, None>> >>,
                          !.log = <<Entry(D, p, None, TRUE)>>]
                 ELSE [s0 EXCEPT !.fs = r.fs]
        ELSE s0

\* Pass 2, the body of the loop for one entity (lines 607-612).
pass2(f, p, tds, recurse) ==
    LET s0 == Step(f, p, tds)
    IN  IF p.is_dir /\ p.newpath = None
        THEN LET r == remove(f, p.path, p.is_git, recurse)
             IN  IF ~r.err
                 THEN [s0 EXCEPT !.fs = r.fs, !.p = [p EXCEPT !.is_dir = FALSE],
                          !.applied = << <<D, p.path, None>> >>,
                          !.log = <<Entry(D, p, None, TRUE)>>]
                 ELSE [s0 EXCEPT !.fs = r.fs]
        ELSE s0

\* The copies of one entity from the k-th on, each on the filesystem the
\* one before left (lines 621-626).
RECURSIVE copies(_, _)
copies(st, k) ==
    IF k > Len(st.p.copies) THEN st
    ELSE LET c == st.p.copies[k]
             r == copy(st.fs, st.p, c)
         IN  copies(
               IF r.err
               THEN [st EXCEPT !.fs = r.fs,
                        !.failed = Append(@, <<C, st.p.path, c>>),
                        !.log = Append(@, Entry(C, st.p, c, FALSE))]
               ELSE [st EXCEPT !.fs = r.fs,
                        !.applied = Append(@, <<C, st.p.path, c>>),
                        !.log = Append(@, Entry(C, st.p, c, TRUE))],
               k + 1)

\* A Pass 3 that, when a copy of a renamed entity fails, puts the rename
\* into the failed sequence as well.
pass3_blames_rename(f, p, tds) ==
    LET s0 == Step(f, p, tds)
        t  == restore_temp(f, p)
    IN  IF t.res = "raise"
        THEN [s0 EXCEPT !.fs = t.fs, !.p = t.p, !.raised = TRUE,
                 !.log = <<Entry(R, p, p.newpath, FALSE)>>]
        ELSE IF t.res = "true"
        THEN LET c == copies([s0 EXCEPT !.fs = t.fs, !.p = t.p,
                                 !.applied = << <<R, p.path, t.p.newpath>> >>,
                                 !.said = IF t.said THEN 1 ELSE 0,
                                 !.log = <<Entry(R, p, p.newpath, ~t.said)>>], 1)
             IN  IF c.failed = <<>> THEN c
                 ELSE [c EXCEPT !.failed = << <<R, p.path, p.newpath>> >> \o @]
        ELSE copies(s0, 1)

\* A Pass 3 that makes the copies but leaves staged entities where they are.
pass3_copies_only(f, p, tds) == copies(Step(f, p, tds), 1)

\* Pass 3, the body of the loop for one entity (lines 616-626).
pass3(f, p, tds) ==
    LET s0 == Step(f, p, tds)
        t  == restore_temp(f, p)
    IN  IF t.res = "raise"
        THEN [s0 EXCEPT !.fs = t.fs, !.p = t.p, !.raised = TRUE,
                 !.log = <<Entry(R, p, p.newpath, FALSE)>>]
        ELSE IF t.res = "true"
        THEN copies([s0 EXCEPT !.fs = t.fs, !.p = t.p,
                        !.applied = << <<R, p.path, t.p.newpath>> >>,
                        !.said = IF t.said THEN 1 ELSE 0,
                        !.log = <<Entry(R, p, p.newpath, ~t.said)>>], 1)
        ELSE copies(s0, 1)

\* A Pass 4 that keeps quiet about a directory it could not remove.
pass4_silent(f, p, tds, recurse) ==
    LET s0 == Step(f, p, tds)
    IN  IF p.is_dir /\ p.newpath = None
        THEN LET r == remove(f, p.path, p.is_git, recurse)
             IN  IF r.err
                 THEN [s0 EXCEPT !.fs = r.fs]
                 ELSE [s0 EXCEPT !.fs = r.fs,
                          !.applied = << <<D, p.path, None>> >>,
                          !.log = <<Entry(D, p, None, TRUE)>>]
        ELSE s0

\* Pass 4, the body of the loop for one entity (lines 632-638).
pass4(f, p, tds, recurse) ==
    LET s0 == Step(f, p, tds)
    IN  IF p.is_dir /\ p.newpath = None
        THEN LET r == remove(f, p.path, p.is_git, recurse)
             IN  IF r.err
                 THEN [s0 EXCEPT !.fs = r.fs,
                          !.failed = << <<D, p.path, None>> >>,
                          !.log = <<Entry(D, p, None, FALSE)>>]
                 ELSE [s0 EXCEPT !.fs = r.fs,
                          !.applied = << <<D, p.path, None>> >>,
                          !.log = <<Entry(D, p, None, TRUE)>>]
        ELSE s0

\* The statuses 1 and 2 the other way round.
exit_status_swapped(applied, failed) ==
    IF Len(failed) > 0 THEN (IF Len(applied) > 0 THEN 2 ELSE 1) ELSE 0

\* Any failure is "nothing applied".
exit_status_all_bad(applied, failed) == IF Len(failed) > 0 THEN 2 ELSE 0

\* The status perform_actions returns (line 654).
exit_status(applied, failed) ==
    IF Len(failed) > 0 THEN (IF Len(applied) > 0 THEN 1 ELSE 2) ELSE 0

\* An actions file written at the end of every run.
writes_file_always(failed) == TRUE

\* Whether perform_actions writes the actions file (line 645).
writes_file(failed) == failed # <<>>

\* create_actions_file: in the working directory, else in the system's
\* directory for temporary files.
file_place(f) == IF Writable(f, <<>>) THEN "cwd" ELSE "tmp"

\* ------------------------------------------------------------- the inputs
MaxEntities == 3
MaxCopies == 2
MaxLines == 2

Pa == << <<"a">> >>
Pb == << <<"b">> >>
Pc == << <<"c">> >>
Pd == << <<"d">> >>
Pe == << <<"e">> >>
Ps == << <<"s">> >>
Psk == << <<"s">>, <<"k">> >>
Psb == << <<"s">>, <<"b">> >>

\* os.getcwd()
Cwd == <<"/", "w">>

\* The directory the runs start in: files a, b, c and the directory s with
\* the file s/k.  The directory itself, s, and the file b may have lost
\* their permissions (chmod 0o555 on a directory, 0o000 on a file).
StartFs(rootW, subW, bR) ==
    (<<>> :> DirNode(rootW)) @@ (Pa :> FileNode("A", TRUE))
    @@ (Pb :> FileNode("B", bR)) @@ (Pc :> FileNode("C", TRUE))
    @@ (Ps :> DirNode(subW)) @@ (Psk :> FileNode("K", TRUE))

\* At most one permission is withdrawn.
StartFss ==
    {StartFs(TRUE, TRUE, TRUE), StartFs(FALSE, TRUE, TRUE),
     StartFs(TRUE, FALSE, TRUE), StartFs(TRUE, TRUE, FALSE)}

Sources == {Pa, Pb, Pc, Ps}

\* The intended paths tried for each source: None (delete), the source
\* itself (no rename), the other file's name (swap, collision), a free name
\* and a name in the other directory.
NewPaths(src) ==
    IF src = Pa THEN {None, Pb, Pd, Psb}
    ELSE IF src = Pb THEN {None, Pa, Pd}
    ELSE IF src = Pc THEN {None, Pc}
    ELSE {None, Pd}

\* The copy targets of an entity: up to MaxCopies of e, d, e~, d~, ...
CopyFrom == <<Pe, Pd, << <<"e", Tilde>> >>, << <<"d", Tilde>> >> >>

CopyLists == {SubSeq(CopyFrom, 1, n) : n \in 0..MaxCopies}

\* The entities of one source, without and with copies (an entity that is
\* deleted has none).
Plain(f, src) == {[NewPath(f, src) EXCEPT !.newpath = np] : np \in NewPaths(src)}

Copying(f, src) ==
    {[NewPath(f, src) EXCEPT !.newpath = x[1], !.copies = x[2]] :
        x \in (NewPaths(src) \ {None}) \X (CopyLists \ {<<>>})}

\* The batches over the sources srcs, in that order; with may, one of the
\* entities may have copies.
RECURSIVE BatchesOf(_, _, _)
BatchesOf(f, srcs, may) ==
    IF srcs = <<>> THEN {<<>>}
    ELSE {<<x[1]>> \o x[2] :
            x \in Plain(f, Head(srcs)) \X BatchesOf(f, Tail(srcs), may)}
         \cup
         (IF may
          THEN {<<x[1]>> \o x[2] :
                  x \in Copying(f, Head(srcs)) \X BatchesOf(f, Tail(srcs), FALSE)}
          ELSE {})

SourceSeqs ==
    UNION {{q \in [1..n -> Sources] : \A j, k \in 1..n : j # k => q[j] # q[k]} :
             n \in 1..MaxEntities}

\* The batches handed to perform_actions: up to MaxEntities entities of
\* distinct sources, at most one of them with copies.
Batches(f) == UNION {BatchesOf(f, q, TRUE) : q \in SourceSeqs}

\* Batches of renames into directories that do not exist yet, one and two
\* levels deep, in the working directory and in s: one or two entities of
\* distinct sources, also with one intended path for both.
Pnb == << <<"n">>, <<"b">> >>
Pnmb == << <<"n">>, <<"m">>, <<"b">> >>
Psnb == << <<"s">>, <<"n">>, <<"b">> >>
Pns == << <<"n">>, <<"s">> >>

NewDirPaths(src) ==
    IF src = Pa THEN {Pnb, Pnmb, Psnb}
    ELSE IF src = Pb THEN {Pnb, Pnmb}
    ELSE {Pns}

NewDirEntities(f, src) ==
    {[NewPath(f, src) EXCEPT !.newpath = np] : np \in NewDirPaths(src)}

NewDirBatches(f) ==
    LET all == UNION {NewDirEntities(f, src) : src \in {Pa, Pb, Ps}}
    IN  {<<x>> : x \in all}
        \cup {<<y[1], y[2]>> : y \in {z \in all \X all : z[1].path # z[2].path}}

\* Batches in which a is renamed onto the file s/k and copied, alone or
\* before an entity of b.
OntoBatches(f) ==
    LET onto == {[NewPath(f, Pa) EXCEPT !.newpath = Psk, !.copies = cl] :
                   cl \in CopyLists \ {<<>>}}
    IN  {<<x>> : x \in onto}
        \cup {<<y[1], y[2]>> : y \in onto \X Plain(f, Pb)}

\* The lines of the actions files given on the command line.
Line(action, src, dst) ==
    action \o <<Space>> \o PathStr(src)
    \o (IF dst = None THEN <<>> ELSE <<Space, Arrow, Space>> \o PathStr(dst))

\* Besides well-formed records of bare names: a line of an unknown action, a
\* rename without spaces around the arrow, a rename without destination,
\* and copies whose source is written with directory components ('./a',
\* 's/k').
LinePool ==
    { Line(D, Pa, None), Line(R, Pa, Pb), Line(R, Pb, Pa), Line(C, Pa, Pd),
      Line(R, Pb, Pd), <<"x", Space, "a">>,
      <<"r", Space, "a", Arrow, "d">>,
      <<"r", Space, "a">>,
      <<"c", Space, ".", Slash, "a", Space, Arrow, Space, "e">>,
      Line(C, Psk, Pe) }

\* A working directory other than os.getcwd().
Elsewhere == <<"/", "o">>

\* Files with provenance lines, for this directory and for another one,
\* before, between and after records.
WorkdirPool ==
    { WorkdirLine(Cwd), WorkdirLine(Elsewhere), Line(R, Pa, Pd),
      <<"r", Space, "a">> }

WorkdirFiles == UNION {[1..n -> WorkdirPool] : n \in 1..(MaxLines + 1)}

\* Files in which two sources are copied to one target and one of them is
\* renamed as well.
CopyPool == {Line(C, Pa, Pe), Line(R, Pa, Pb), Line(C, Psk, Pe)}

CopyFiles == [1..(MaxLines + 1) -> CopyPool]

\* Files with blank lines and comment lines (one of them with the arrow,
\* one that reads like a record after its '#') before, between and after
\* a record and an unparsable line.
CommentPool ==
    { <<>>, <<Space, Space>>,
      <<Hash, Space, "a", Space, Arrow, Space, "b">>,
      <<Space, Hash, "d", Space, "a">>,
      Line(C, Pa, Pd), <<"x", Space, "a">> }

CommentFiles == UNION {[1..n -> CommentPool] : n \in 1..(MaxLines + 1)}

\* Files whose records name s/k and k, a name that exists only in s.
Pk == << <<"k">> >>

SameNamePool == {Line(C, Psk, Pe), Line(R, Pk, Pd), Line(C, Pk, Pd)}

NameFiles == [1..MaxLines -> SameNamePool]

InputFiles ==
    UNION {[1..n -> LinePool] : n \in 1..MaxLines} \cup WorkdirFiles
        \cup CopyFiles \cup CommentFiles \cup NameFiles

\* What stands for the lines when nothing exists at the path given with -i
\* (a value equal to no file's lines).
NotThere == << <<"<absent>">> >>

\* ---------------------------------------------------------------- the state
VARIABLES
    fs,               \* the filesystem
    paths,            \* Path.paths: the entities of the run
    tempdirs,         \* Path.tempdirs
    applied_actions,  \* the applied sequence
    failed_actions,   \* the failed sequence
    actions_file,     \* the recovery file: [at, lines], at = "none" before
    stderr,           \* the number of messages on the error stream
    status,           \* the exit status, -1 while there is none
    pc,               \* where the process is: "start", "pass1" .. "pass4",
                      \* "cleanup", "report", "done" (a status was returned),
                      \* "exited" (sys.exit), "read_raised" and "raised" (an
                      \* exception ended the reader, the passes)
    i,                \* the entity the current pass is at
    run,              \* 1: the first process, 2: the run of its recovery file
    infile,           \* the lines of the actions file given to the process
    recurse,          \* args.recurse
    fs0,              \* the filesystem when the process started
    paths0,           \* the entities as handed to perform_actions
    failed1,          \* the failed sequence of the first process
    against,          \* what the second process ran on: "left" (the filesystem
                      \* as the first left it) or "initial" (put back as it was)
    log,              \* what became of each requested operation, in order
    asked,            \* the answers given when the reader asked for
                      \* confirmation (input()): TRUE is 'y' or 'Y'
    out               \* the argument and the result of a function called
                      \* on its own (the specification SpecFn)

vars == <<fs, paths, tempdirs, applied_actions, failed_actions, actions_file,
          stderr, status, pc, i, run, infile, recurse, fs0, paths0, failed1,
          against, log, asked, out>>

NoFile == [at |-> "none", lines |-> <<>>]

Enter(ps) == IF Len(ps) = 0 THEN "cleanup" ELSE "pass1"

Fresh ==
    /\ tempdirs = {}
    /\ applied_actions = <<>>
    /\ actions_file = NoFile
    /\ stderr = 0
    /\ status = -1
    /\ i = 1
    /\ log = <<>>
    /\ asked = <<>>

\* perform_actions(paths) called with a batch of entities (as the tests do,
\* and as main does after the listing was edited).  args.recurse is read by
\* the directory deletes only, so it is set only where there is one.
InitBatch ==
    /\ fs \in StartFss
    /\ paths \in Batches(fs) \cup NewDirBatches(fs) \cup OntoBatches(fs)
    /\ recurse \in {r \in BOOLEAN : r => \E k \in 1..Len(paths) :
                                          paths[k].is_dir /\ paths[k].newpath = None}
    /\ failed_actions = <<>>
    /\ pc = "pass1"
    /\ infile = <<>>

\* A directory tree three levels deep, s/t/u beside s/k, everything
\* writable, and the batches that delete the three directories and delete k
\* or rename it out of s, the four entities in every order.
Pst == << <<"s">>, <<"t">> >>
Pstu == << <<"s">>, <<"t">>, <<"u">> >>

NestFs ==
    StartFs(TRUE, TRUE, TRUE) @@ (Pst :> DirNode(TRUE))
    @@ (Pstu :> DirNode(TRUE))

NestSources == {Ps, Psk, Pst, Pstu}

NestBatches ==
    {[k \in 1..4 |->
         [NewPath(NestFs, q[k]) EXCEPT
             !.newpath = IF q[k] = Psk THEN np ELSE None]] :
       q \in {o \in [1..4 -> NestSources] :
                 \A j, k \in 1..4 : j # k => o[j] # o[k]},
       np \in {None, Pd}}

InitNest ==
    /\ fs = NestFs
    /\ paths \in NestBatches
    /\ recurse \in BOOLEAN
    /\ failed_actions = <<>>
    /\ pc = "pass1"
    /\ infile = <<>>

\* A working directory in which a directory with the name of the holding
\* directory is there before the run, holding a file x; and the batches of
\* the one entity a, renamed or not, copied onto the existing file c or not.
Ptmp == <<TEMPDIR>>
Ptmpx == <<TEMPDIR, <<"x">> >>

HeldFs ==
    StartFs(TRUE, TRUE, TRUE) @@ (Ptmp :> DirNode(TRUE))
    @@ (Ptmpx :> FileNode("X", TRUE))

OverBatches(f) ==
    {<<[NewPath(f, Pa) EXCEPT !.newpath = x[1], !.copies = x[2]]>> :
        x \in ({Pa, Pb, Pd} \X {<<>>, <<Pc>>}) \ {<<Pa, <<>> >>}}

InitOutsider ==
    /\ fs \in {StartFs(TRUE, TRUE, TRUE), HeldFs}
    /\ paths \in OverBatches(fs)
    /\ recurse = FALSE
    /\ failed_actions = <<>>
    /\ pc = "pass1"
    /\ infile = <<>>

\* main(['-i', file]): the actions file is read first, if there is one.
InitFile ==
    /\ fs \in StartFss
    /\ infile \in InputFiles \cup {NotThere}
    /\ recurse = FALSE
    /\ paths = <<>>
    /\ failed_actions = <<>>
    /\ pc = "start"

Init ==
    /\ InitBatch \/ InitFile \/ InitNest \/ InitOutsider
    /\ Fresh
    /\ run = 1
    /\ fs0 = fs
    /\ paths0 = paths
    /\ failed1 = <<>>
    /\ against = "none"
    /\ out = <<>>

\* The observer's record of the lines read_actionsfile cannot parse (lines
\* 379-383): requests that failed before any pass.
Unparsable(lines) ==
    LET bad == SelectSeq(lines, LAMBDA raw :
                   /\ LStrip(raw) # <<>>
                   /\ Head(LStrip(raw)) # Hash
                   /\ ActionMatch(LStrip(raw)) = {})
    IN  [k \in 1..Len(bad) |->
           [op |-> LStrip(bad[k]), path |-> None, to |-> None, ok |-> FALSE]]

\* A run that takes a missing actions file for one it can read.
file_missing_never(file) == FALSE

\* run_noninteractively, line 528: not fpath.exists().
file_missing(file) == file = NotThere

\* run_noninteractively: a missing file ends the process with sys.exit(3);
\* else read_actionsfile, then main goes on to perform_actions unless the
\* process has ended.
RunNoninteractively ==
    /\ pc = "start"
    /\ \E yes \in BOOLEAN :
         LET st == IF file_missing(infile)
                   THEN [paths |-> <<>>, failed |-> <<>>, stderr |-> 1,
                         wd |-> FALSE, out |-> "exit", code |-> 3,
                         asked |-> <<>>]
                   ELSE read_actionsfile(fs, Cwd, yes,
                      [paths |-> <<>>, failed |-> <<>>, stderr |-> 0,
                       wd |-> FALSE, out |-> "ok", code |-> -1,
                       asked |-> <<>>],
                      infile)
         IN  /\ paths' = st.paths
             /\ paths0' = st.paths
             /\ failed_actions' = st.failed
             /\ stderr' = st.stderr
             /\ status' = st.code
             /\ log' = IF file_missing(infile) THEN <<>> ELSE Unparsable(infile)
             /\ asked' = st.asked
             /\ pc' = IF st.out = "ok" THEN Enter(st.paths)
                      ELSE IF st.out = "exit" THEN "exited" ELSE "read_raised"
    /\ UNCHANGED <<fs, tempdirs, applied_actions, actions_file, i, run, infile,
                   recurse, fs0, failed1, against, out>>

\* The common part of a pass's step for entity i: r is the step's result,
\* next the pass that follows.
Take(r, here, next) ==
    /\ fs' = r.fs
    /\ paths' = [paths EXCEPT ![i] = r.p]
    /\ tempdirs' = r.tempdirs
    /\ applied_actions' = applied_actions \o r.applied
    /\ failed_actions' = failed_actions \o r.failed
    /\ stderr' = stderr + Len(r.failed) + r.said
    /\ log' = log \o r.log
    /\ IF r.raised THEN pc' = "raised" /\ i' = i
       ELSE IF i < Len(paths) THEN pc' = here /\ i' = i + 1
       ELSE pc' = next /\ i' = 1
    /\ UNCHANGED <<actions_file, status, run, infile, recurse, fs0, paths0, failed1,
                   against, asked, out>>

Pass1 == pc = "pass1" /\ Take(pass1(fs, paths[i], tempdirs), "pass1", "pass2")

Pass2 == pc = "pass2" /\ Take(pass2(fs, paths[i], tempdirs, recurse), "pass2", "pass3")

Pass3 == pc = "pass3" /\ Take(pass3(fs, paths[i], tempdirs), "pass3", "cleanup")

\* Path.remove_temps() (line 629)
RemoveTemps ==
    /\ pc = "cleanup"
    /\ fs' = remove_temps(fs, tempdirs)
    /\ tempdirs' = {}
    /\ pc' = IF Len(paths) = 0 THEN "report" ELSE "pass4"
    /\ UNCHANGED <<paths, applied_actions, failed_actions, actions_file, stderr,
                   status, i, run, infile, recurse, fs0, paths0, failed1, against,
                   log, asked, out>>

Pass4 == pc = "pass4" /\ Take(pass4(fs, paths[i], tempdirs, recurse), "pass4", "report")

\* The end of perform_actions (lines 641-654): the actions file is written
\* when something failed, and the status is returned.
Report ==
    /\ pc = "report"
    /\ IF writes_file(failed_actions)
       THEN /\ actions_file' = [at |-> file_place(fs),
                                lines |-> write_actions_file(Cwd, failed_actions)]
            /\ stderr' = stderr + 1
       ELSE UNCHANGED <<actions_file, stderr>>
    /\ status' = exit_status(applied_actions, failed_actions)
    /\ pc' = "done"
    /\ UNCHANGED <<fs, paths, tempdirs, applied_actions, failed_actions, i, run,
                   infile, recurse, fs0, paths0, failed1, against, log, asked, out>>

\* edir -i <the recovery file>: a new process, in the same directory, on
\* the filesystem as the first process left it or put back as it was before
\* the first process.
Rerun ==
    /\ pc = "done" /\ run = 1 /\ actions_file.at # "none"
    /\ run' = 2
    /\ infile' = actions_file.lines
    /\ failed1' = failed_actions
    /\ \E a \in {"left", "initial"} :
         /\ against' = a
         /\ fs' = IF a = "left" THEN fs ELSE fs0
         /\ fs0' = fs'
    /\ paths' = <<>> /\ paths0' = <<>>
    /\ tempdirs' = {} /\ applied_actions' = <<>> /\ failed_actions' = <<>>
    /\ actions_file' = NoFile
    /\ stderr' = 0 /\ status' = -1 /\ i' = 1 /\ log' = <<>> /\ asked' = <<>>
    /\ pc' = "start"
    /\ UNCHANGED <<recurse, out>>

Next ==
    \/ RunNoninteractively
    \/ Pass1
    \/ Pass2
    \/ Pass3
    \/ RemoveTemps
    \/ Pass4
    \/ Report
    \/ Rerun

Spec == Init /\ [][Next]_vars

\* ------------------------------------------- several calls in one process
\* perform_actions called again in the process that has just returned from
\* it, as the tests do: on the filesystem as it is, for one entity that is
\* there.  tearDown puts back actions_file (line 537); the module's
\* applied_actions and failed_actions are what the call before left.
CallBatches(f) ==
    {<<x>> : x \in UNION {Plain(f, src) \cup Copying(f, src) :
                            src \in {q \in Sources : Exists(f, q)}}}

InitProc ==
    /\ fs \in StartFss
    /\ paths \in CallBatches(fs)
    /\ recurse = FALSE
    /\ failed_actions = <<>>
    /\ pc = "pass1"
    /\ infile = <<>>
    /\ Fresh
    /\ run = 1
    /\ fs0 = fs
    /\ paths0 = paths
    /\ failed1 = <<>>
    /\ against = "none"
    /\ out = <<>>

CallAgain ==
    /\ pc = "done" /\ run = 1
    /\ run' = 2
    /\ paths' \in CallBatches(fs)
    /\ paths0' = paths'
    /\ fs0' = fs
    /\ failed1' = failed_actions
    /\ actions_file' = NoFile
    /\ stderr' = 0 /\ status' = -1 /\ i' = 1 /\ log' = <<>>
    /\ pc' = "pass1"
    /\ UNCHANGED <<fs, tempdirs, applied_actions, failed_actions, infile,
                   recurse, against, asked, out>>

NextProc ==
    \/ Pass1
    \/ Pass2
    \/ Pass3
    \/ RemoveTemps
    \/ Pass4
    \/ Report
    \/ CallAgain

SpecProc == InitProc /\ [][NextProc]_vars

\* ------------------------------------------------ runs under version control
\* The working directory as a repository in which every file is tracked,
\* with the index free or locked.
Repo(locked) ==
    StartFs(TRUE, TRUE, TRUE) @@ (GitDir :> DirNode(TRUE))
    @@ (IF locked THEN (GitLock :> FileNode("", TRUE)) ELSE <<>>)

RepoFss == {Repo(TRUE), Repo(FALSE)}

GitPool ==
    {Line(D, Pa, None), Line(R, Pa, Pd), Line(R, Pb, Pa), Line(C, Pb, Pe)}

GitFiles == UNION {[1..n -> GitPool] : n \in 1..MaxLines}

\* The same program started in a repository: perform_actions with a batch,
\* or main with an actions file.
InitGit ==
    /\ fs \in RepoFss
    /\ \/ /\ paths \in Batches(fs)
          /\ recurse \in {r \in BOOLEAN : r => \E k \in 1..Len(paths) :
                                                paths[k].is_dir /\ paths[k].newpath = None}
          /\ pc = "pass1"
          /\ infile = <<>>
       \/ /\ infile \in GitFiles
          /\ recurse = FALSE
          /\ paths = <<>>
          /\ pc = "start"
    /\ failed_actions = <<>>
    /\ Fresh
    /\ run = 1
    /\ fs0 = fs
    /\ paths0 = paths
    /\ failed1 = <<>>
    /\ against = "none"
    /\ out = <<>>

SpecGit == InitGit /\ [][Next]_vars

\* ------------------------------------------------- functions on their own
\* Path.inc_path, called on its own: the names path, name~, name~1, ... up
\* to MaxTaken of them may be taken, each by a file, a directory, a
\* symbolic link to something or a dangling symbolic link.
MaxTaken == 3

Px == << <<"x">> >>
Psx == << <<"s">>, <<"x">> >>

\* The c-th name inc_path tries for path (line 200).
Tried(path, c) ==
    IF c = 0 THEN path
    ELSE WithName(path, Name(path) \o (IF c = 1 THEN <<Tilde>>
                                       ELSE <<Tilde, ToString(c - 1)>>))

Nodes == {FileNode("X", TRUE), DirNode(TRUE), LinkNode(TRUE), LinkNode(FALSE)}

\* The filesystems in which some of the first MaxTaken names tried for path
\* are taken.
TakenFss(path) ==
    LET base == (<<>> :> DirNode(TRUE)) @@ (Ps :> DirNode(TRUE))
    IN  UNION {{[q \in {Tried(path, c) : c \in taken} |-> g[q]] @@ base :
                  g \in [{Tried(path, c) : c \in taken} -> Nodes]} :
               taken \in SUBSET (0..(MaxTaken - 1))}

\* to_actions_file and the reader, called on their own for one failed
\* operation: file names with leading, trailing and inner spaces, with the
\* arrow, with and without spaces around it, and with a carriage return at
\* the end.
NamePool ==
    { <<"x">>, <<Space, "x">>, <<"x", Space>>, <<"x", Space, "y">>,
      <<Space, "x", Space, "y", Space>>,
      <<"x", Space, Arrow, Space, "y">>, <<"x", Arrow, "y">>, <<Arrow>>,
      <<"x", CR>> }

PathPool == {<<n>> : n \in NamePool} \cup {<< <<"s">>, <<"x", Space, "y">> >>}

\* The failed operations: a delete has no target.
FailedPool ==
    {<<D, src, None>> : src \in PathPool}
    \cup {<<x[1], x[2], x[3]>> : x \in {R, C} \X PathPool \X PathPool}

\* The working directory holds a file for every path of the pool.
PoolFs ==
    [q \in PathPool |-> FileNode("X", TRUE)]
    @@ (<<>> :> DirNode(TRUE)) @@ (Ps :> DirNode(TRUE))

\* The working directories a recovery file is written in and read in: two
\* plain ones and one with a space in its name.
Spaced == <<"/", "w", Space, "x">>

DirPool == {Cwd, Elsewhere, Spaced}

\* The calls of inc_path followed iteration by iteration: for x and s/x in
\* the filesystems above, and for the working directory itself
\* (pathlib.Path('.'), the path with no name), which always exists.
LoopStarts ==
    {<<f, Px>> : f \in TakenFss(Px)} \cup {<<f, Psx>> : f \in TakenFss(Psx)}
    \cup {<<PoolFs, <<>> >>}

InitFn ==
    /\ Fresh
    /\ paths = <<>> /\ paths0 = <<>>
    /\ failed_actions = <<>> /\ failed1 = <<>>
    /\ infile = <<>>
    /\ recurse = FALSE
    /\ run = 1
    /\ against = "none"
    /\ \/ \E path \in {Px, Psx} :
             /\ fs \in TakenFss(path)
             /\ out = [path |-> path]
             /\ pc = "inc_path"
       \/ \E x \in FailedPool :
             /\ fs = PoolFs
             /\ out = [action |-> x[1], source_path |-> x[2], target_path |-> x[3]]
             /\ pc = "to_actions_file"
       \/ \E w \in DirPool, cur \in DirPool :
             /\ fs = PoolFs
             /\ out = [workdir |-> w, cwd |-> cur]
             /\ pc = "create_actions_file"
    /\ fs0 = fs

\* Path.inc_path(path)
IncPath ==
    /\ pc = "inc_path"
    /\ out' = [path |-> out.path, ret |-> inc_path(fs, out.path)]
    /\ pc' = "returned"
    /\ UNCHANGED <<fs, paths, tempdirs, applied_actions, failed_actions,
                   actions_file, stderr, status, i, run, infile, recurse, fs0,
                   paths0, failed1, against, log, asked>>

\* to_actions_file(action, source_path, target_path, error): the line
\* written for the failed operation.
ToActionsFile ==
    /\ pc = "to_actions_file"
    /\ out' = [action |-> out.action, source_path |-> out.source_path,
               target_path |-> out.target_path,
               line |-> to_actions_file(out.action, out.source_path,
                                        out.target_path)]
    /\ pc' = "written"
    /\ UNCHANGED <<fs, paths, tempdirs, applied_actions, failed_actions,
                   actions_file, stderr, status, i, run, infile, recurse, fs0,
                   paths0, failed1, against, log, asked>>

\* read_actionsfile on the line written: the groups the pattern matches in
\* the stripped line (lines 370-378), and what the reader makes of the line.
ReadBack ==
    /\ pc = "written"
    /\ out' = [action |-> out.action, source_path |-> out.source_path,
               target_path |-> out.target_path, line |-> out.line,
               match |-> ActionMatch(LStrip(RStripEol(out.line))),
               st |-> read_line(fs, Cwd, TRUE,
                                [paths |-> <<>>, failed |-> <<>>, stderr |-> 0,
                                 wd |-> FALSE, out |-> "ok", code |-> -1,
                                 asked |-> <<>>],
                                out.line)]
    /\ pc' = "read"
    /\ UNCHANGED <<fs, paths, tempdirs, applied_actions, failed_actions,
                   actions_file, stderr, status, i, run, infile, recurse, fs0,
                   paths0, failed1, against, log, asked>>

\* create_actions_file in the directory out.workdir: the first line of the
\* header (line 755).
CreateActionsFile ==
    /\ pc = "create_actions_file"
    /\ out' = [workdir |-> out.workdir, cwd |-> out.cwd,
               line |-> Header(out.workdir)[1]]
    /\ pc' = "header_written"
    /\ UNCHANGED <<fs, paths, tempdirs, applied_actions, failed_actions,
                   actions_file, stderr, status, i, run, infile, recurse, fs0,
                   paths0, failed1, against, log, asked>>

\* read_actionsfile on that line with os.getcwd() = out.cwd: what the
\* provenance pattern matches (line 338), and what the reader makes of the
\* line when the answer to a prompt is out.yes.
ReadHeader ==
    /\ pc = "header_written"
    /\ \E yes \in BOOLEAN :
          out' = [workdir |-> out.workdir, cwd |-> out.cwd, line |-> out.line,
                  yes |-> yes,
                  match |-> WorkdirMatch(out.line),
                  st |-> read_line(fs, out.cwd, yes,
                                   [paths |-> <<>>, failed |-> <<>>, stderr |-> 0,
                                    wd |-> FALSE, out |-> "ok", code |-> -1,
                                    asked |-> <<>>],
                                   out.line)]
    /\ pc' = "header_read"
    /\ UNCHANGED <<fs, paths, tempdirs, applied_actions, failed_actions,
                   actions_file, stderr, status, i, run, infile, recurse, fs0,
                   paths0, failed1, against, log, asked>>

\* One iteration of the loop of inc_path (lines 197-200) for the counter
\* out.c: the path at hand is returned when nothing occupies it; else the
\* next name is made with path.with_name, which raises ValueError for a
\* path that has no name.
IncPathStep ==
    /\ pc = "inc_loop"
    /\ IF Unoccupied(fs, out.cur)
       THEN /\ out' = [path |-> out.path, ret |-> out.cur]
            /\ pc' = "returned"
       ELSE IF Name(out.cur) = <<>>
       THEN /\ out' = out
            /\ pc' = "inc_raised"
       ELSE /\ out' = [out EXCEPT
                         !.cur = WithName(out.cur,
                                    out.name \o (IF out.c <= 0 THEN <<Tilde>>
                                                 ELSE <<Tilde, ToString(out.c)>>)),
                         !.c = out.c + 1]
            /\ pc' = "inc_loop"
    /\ UNCHANGED <<fs, paths, tempdirs, applied_actions, failed_actions,
                   actions_file, stderr, status, i, run, infile, recurse, fs0,
                   paths0, failed1, against, log, asked>>

NextFn ==
    \/ IncPath
    \/ ToActionsFile
    \/ ReadBack
    \/ CreateActionsFile
    \/ ReadHeader

SpecFn == InitFn /\ [][NextFn]_vars

\* inc_path on its own, iteration by iteration; a call goes on until it
\* ends (nothing stops the process between two iterations).
InitLoop ==
    /\ Fresh
    /\ paths = <<>> /\ paths0 = <<>>
    /\ failed_actions = <<>> /\ failed1 = <<>>
    /\ infile = <<>>
    /\ recurse = FALSE
    /\ run = 1
    /\ against = "none"
    /\ \E x \in LoopStarts :
          /\ fs = x[1]
          /\ out = [path |-> x[2], name |-> Name(x[2]), c |-> 0, cur |-> x[2]]
    /\ pc = "inc_loop"
    /\ fs0 = fs

NextLoop == IncPathStep

SpecLoop == InitLoop /\ [][NextLoop]_vars /\ WF_vars(NextLoop)

\* ================================================================ properties
\* ---- what the properties speak of
Indices(q) == 1..Len(q)

\* The operations one entity asks for: a delete when it has no intended
\* path, a rename when its intended path differs from its path, and a copy
\* per copy target.
OpsOf(p) ==
    (IF p.newpath = None THEN <<[op |-> D, path |-> p.path, to |-> None]>>
     ELSE IF p.newpath # p.path
     THEN <<[op |-> R, path |-> p.path, to |-> p.newpath]>>
     ELSE <<>>)
    \o [m \in Indices(p.copies) |-> [op |-> C, path |-> p.path, to |-> p.copies[m]]]

\* The operations a batch asks for, entity by entity.
RECURSIVE RequestedOps(_)
RequestedOps(ps) ==
    IF ps = <<>> THEN <<>> ELSE OpsOf(Head(ps)) \o RequestedOps(Tail(ps))

\* The records of the failed sequence.
FailedOps ==
    [k \in Indices(failed_actions) |->
       [op |-> failed_actions[k][1], path |-> failed_actions[k][2],
        to |-> failed_actions[k][3]]]

Occurrences(q, x) == Cardinality({k \in Indices(q) : q[k] = x})

\* The two sequences hold the same elements, each as often.
SameElements(q1, q2) ==
    /\ Len(q1) = Len(q2)
    /\ \A k \in Indices(q1) : Occurrences(q1, q1[k]) = Occurrences(q2, q1[k])

\* The requests that failed, in the order they failed.
LogFailed == SelectSeq(log, LAMBDA e : ~e.ok)

Succeeded(op, p, to) ==
    \E k \in Indices(log) : log[k] = [op |-> op, path |-> p, to |-> to, ok |-> TRUE]

\* No name of the filesystem holds the resolver's '~'.
NoTilde(f) ==
    \A q \in DOMAIN f : \A j \in Indices(q) : \A m \in Indices(q[j]) :
        q[j][m] # Tilde

\* What was at src (and below it) in f0 is at dst (and below it) in f.
MovedTo(f0, f, src, dst) ==
    \A q \in DOMAIN f0 :
        Under(src, q) =>
            LET t == dst \o SubSeq(q, Len(src) + 1, Len(q))
            IN  t \in DOMAIN f /\ f[t] = f0[q]

\* ---- C1
\* A batch of renames of regular files in writable directories whose intended
\* paths are a permutation of their current paths.
PermutationBatch ==
    /\ paths0 # <<>>
    /\ \A k \in Indices(paths0) :
          /\ ~paths0[k].is_dir
          /\ paths0[k].newpath # None
          /\ paths0[k].copies = <<>>
          /\ Writable(fs0, Parent(paths0[k].path))
          /\ Writable(fs0, Parent(paths0[k].newpath))
    /\ \A j, k \in Indices(paths0) :
          j # k => paths0[j].newpath # paths0[k].newpath
    /\ {paths0[k].newpath : k \in Indices(paths0)}
         = {paths0[k].path : k \in Indices(paths0)}

\* C1: when the intended paths of a batch of renames (regular files, writable
\* directories) are a permutation of the current paths, perform_actions ends
\* with every intended path holding what was at its entity's current path,
\* nothing else changed, no name lost and no '~' name made, in whichever
\* order the entities are given.
C1_PermutationSafe ==
    PermutationBatch =>
        /\ pc # "raised"
        /\ pc = "done" =>
              /\ \A k \in Indices(paths0) :
                    /\ paths0[k].newpath \in DOMAIN fs
                    /\ fs[paths0[k].newpath] = fs0[paths0[k].path]
              /\ DOMAIN fs = DOMAIN fs0
              /\ \A q \in DOMAIN fs0 :
                    (\A k \in Indices(paths0) : paths0[k].path # q) => fs[q] = fs0[q]
              /\ NoTilde(fs)
              /\ applied_actions =
                    SelectSeq([k \in Indices(paths0) |->
                                  <<R, paths0[k].path, paths0[k].newpath>>],
                              LAMBDA r : r[2] # r[3])

\* The swap b -> a, a -> b has been carried out.
C1_Witness ==
    /\ pc = "done" /\ PermutationBatch
    /\ Len(paths0) >= 2
    /\ paths0[1].path = Pb /\ paths0[1].newpath = Pa
    /\ paths0[2].path = Pa /\ paths0[2].newpath = Pb
    /\ fs[Pa].data = "B" /\ fs[Pb].data = "A"

\* ---- C2
\* The batch deletes x, renames y to a free name and copies z to a free
\* name, all regular files in writable directories.
IndependentTriple(x, y, z) ==
    /\ infile = <<>> /\ Len(paths0) = 3
    /\ {x, y, z} = 1..3
    /\ \A k \in 1..3 : ~paths0[k].is_dir /\ Writable(fs0, Parent(paths0[k].path))
    /\ paths0[x].newpath = None
    /\ paths0[y].newpath # None /\ paths0[y].newpath # paths0[y].path
    /\ paths0[y].copies = <<>>
    /\ ~Exists(fs0, paths0[y].newpath)
    /\ Writable(fs0, Parent(paths0[y].newpath))
    /\ paths0[z].newpath = paths0[z].path
    /\ Len(paths0[z].copies) = 1
    /\ ~Exists(fs0, paths0[z].copies[1])
    /\ Writable(fs0, Parent(paths0[z].copies[1]))
    /\ fs0[paths0[z].path].ok
    /\ paths0[z].copies[1] # paths0[y].newpath

IndependentResult(x, y, z) ==
    LET X  == paths0[x].path
        Y  == paths0[y].path
        Y2 == paths0[y].newpath
        Z  == paths0[z].path
        Z2 == paths0[z].copies[1]
    IN  /\ status = 0
        /\ DOMAIN fs = (DOMAIN fs0 \ {X, Y}) \cup {Y2, Z2}
        /\ fs[Y2] = fs0[Y]
        /\ fs[Z2].kind = "file" /\ fs[Z2].data = fs0[Z].data
        /\ \A q \in DOMAIN fs0 \ {X, Y} : fs[q] = fs0[q]
        /\ failed_actions = <<>>

\* C2: a batch that deletes file X, renames file Y to a free name Y2 and
\* copies file Z to a free name Z2 (writable directory) ends with X gone, Y2
\* holding what Y held, Y gone, Z unchanged, Z2 holding what Z holds, every
\* other file unchanged, and the status 0.
C2_IndependentOperations ==
    \A x, y, z \in 1..3 :
        IndependentTriple(x, y, z) =>
            /\ pc # "raised"
            /\ pc = "done" => IndependentResult(x, y, z)

\* Such a batch, given as (copy, rename, delete), has been carried out.
C2_Witness ==
    /\ pc = "done" /\ IndependentTriple(3, 2, 1)
    /\ ~Exists(fs, paths0[3].path)
    /\ Exists(fs, paths0[2].newpath) /\ Exists(fs, paths0[1].copies[1])
    /\ Len(applied_actions) = 3

\* ---- C3
\* C3: the status perform_actions returns is 0 exactly when no requested
\* operation failed (an unparsable line of the actions file is a request
\* that failed), 1 exactly when one failed and one was applied, 2 exactly
\* when one failed and none was applied.
C3_ExitStatus ==
    pc = "done" =>
        LET bad  == \E k \in Indices(log) : ~log[k].ok
            good == \E k \in Indices(log) : log[k].ok
        IN  /\ status \in {0, 1, 2}
            /\ status = 0 <=> ~bad
            /\ status = 1 <=> bad /\ good
            /\ status = 2 <=> bad /\ ~good

\* A run in which a delete was applied and a rename failed has returned.
C3_Witness ==
    /\ pc = "done" /\ status = 1
    /\ \E j, k \in Indices(log) :
          /\ log[j].op = D /\ log[j].ok
          /\ log[k].op = R /\ ~log[k].ok

\* ---- C4
Ended == pc \in {"done", "exited", "read_raised", "raised"}

\* C4: when the recovery file of a run that ended with failures is read and
\* run on the filesystem as that run left it, the failed sequence is the
\* one of the first run: the same operations in the same order.
C4_RoundTrip ==
    (run = 2 /\ against = "left" /\ Ended) =>
        (pc = "done" /\ failed_actions = failed1)

\* The same with the filesystem put back as it was before the first run.
C4_RoundTripRestored ==
    (run = 2 /\ against = "initial" /\ Ended) =>
        (pc = "done" /\ failed_actions = failed1)

Body(lines) ==
    SelectSeq(lines, LAMBDA l : LStrip(l) # <<>> /\ Head(LStrip(l)) # Hash)

\* 'd <source>', 'r <source> → <destination>', 'c <source> → <destination>'
FormLine(op, src, dst) ==
    IF op = D THEN <<"d", Space>> \o PathStr(src)
    ELSE op \o <<Space>> \o PathStr(src) \o <<Space, Arrow, Space>> \o PathStr(dst)

\* The lines of that form whose source is the path of an entity of the batch.
EntityLines ==
    UNION {{FormLine(op, paths0[k].path, dst) :
              op \in {D, R, C},
              dst \in {paths0[k].newpath} \cup {paths0[k].copies[m] :
                                                  m \in Indices(paths0[k].copies)}} :
           k \in Indices(paths0)}

UnwritableBatch ==
    /\ ~Writable(fs0, <<>>)
    /\ Unparsable(infile) = <<>>
    /\ RequestedOps(paths0) # <<>>
    /\ \A k \in Indices(paths0) :
          /\ Len(paths0[k].path) = 1
          /\ paths0[k].newpath # None => Len(paths0[k].newpath) = 1
          /\ \A m \in Indices(paths0[k].copies) : Len(paths0[k].copies[m]) = 1

InputPosition(rec) ==
    IF infile = <<>>
    THEN CHOOSE k \in Indices(paths0) : paths0[k].path = rec[2]
    ELSE CHOOSE k \in Indices(infile) :
            LStrip(infile[k]) = to_actions_file(rec[1], rec[2], rec[3])

RenamedCopyFailed(k) ==
    /\ paths0[k].newpath # None
    /\ Succeeded(R, paths0[k].path, paths0[k].newpath)
    /\ \E j \in Indices(log) :
          /\ log[j].op = C /\ log[j].path = paths0[k].path /\ ~log[j].ok
          /\ \E m \in Indices(paths0[k].copies) : paths0[k].copies[m] = log[j].to

\* The failed records of entity k are its failed copies, and the status is 1.
OnlyCopiesFailed(k) ==
    /\ SelectSeq(failed_actions, LAMBDA r : r[2] = paths0[k].path)
         = SelectSeq([m \in Indices(paths0[k].copies) |->
                         <<C, paths0[k].path, paths0[k].copies[m]>>],
                     LAMBDA r : \E j \in Indices(log) :
                         log[j] = [op |-> C, path |-> r[2], to |-> r[3], ok |-> FALSE])
    /\ \A j \in Indices(failed_actions) :
          failed_actions[j][2] = paths0[k].path => failed_actions[j][1] = C
    /\ status = 1

\* p is the intended path or, beside it, the intended name with a resolver
\* suffix.
Resolved(intended, p) ==
    \/ p = intended
    \/ /\ Parent(p) = Parent(intended)
       /\ StartsWith(Name(p), Name(intended) \o <<Tilde>>)

C10_NeverAborts == pc # "raised"

\* C10, the record: every request whose primitive failed is in the failed
\* sequence, whatever has become of the run.
C10_FailuresRecorded ==
    \A k \in Indices(log) :
        ~log[k].ok =>
            \E j \in Indices(failed_actions) :
                failed_actions[j] = <<log[k].op, log[k].path, log[k].to>>

\* ---- C11
\* Entity k is both renamed and copied.
RenamedAndCopied(k) ==
    /\ paths0[k].newpath # None /\ paths0[k].newpath # paths0[k].path
    /\ paths0[k].copies # <<>>

\* The run has ended and nothing failed.
NoFailure ==
    pc = "done" /\ failed_actions = <<>> /\ \A j \in Indices(log) : log[j].ok

\* The file 'c a → e', 'r a → b', 'c s/k → e' was run without a failure: a
\* was renamed and copied to e, and e holds the content of s/k.
C11_Overwritten ==
    /\ NoFailure /\ run = 1
    /\ infile = <<Line(C, Pa, Pe), Line(R, Pa, Pb), Line(C, Psk, Pe)>>
    /\ status = 0
    /\ fs[Pe].data = "K"

\* C11 as stated: for an entity that is both renamed and copied, after a run
\* without failures the original path is absent, and the intended path and
\* every copy target each hold the entity's original content.
C11_AsStated ==
    NoFailure =>
        \A k \in Indices(paths0) :
            RenamedAndCopied(k) =>
                /\ ~Exists(fs, paths0[k].path)
                /\ MovedTo(fs0, fs, paths0[k].path, paths0[k].newpath)
                /\ \A m \in Indices(paths0[k].copies) :
                      MovedTo(fs0, fs, paths0[k].path, paths0[k].copies[m])

\* No entity after k copies to the target c: the copy of k to c is the last
\* write to c.
LastCopyTo(k, c) ==
    \A j \in Indices(paths0) :
        j > k => \A m \in Indices(paths0[j].copies) : paths0[j].copies[m] # c

\* What does hold of an entity that is both renamed and copied (its records
\* in any order), after a run without failures: the object is, with its
\* original content, at the path the rename resolved (the intended path or,
\* when that was occupied, the intended name with a resolver suffix); its
\* original path is absent unless another entity was moved to or below it;
\* and every copy target that no later entity copies to holds the entity's
\* original content (inside the target, under the object's new name, when
\* the target is a directory and the entity a file).
C11_CopySeesRenamed ==
    NoFailure =>
        \A k \in Indices(paths0) :
            RenamedAndCopied(k) =>
                /\ Resolved(paths0[k].newpath, paths[k].newpath)
                /\ (~Exists(fs0, paths0[k].newpath)
                    /\ \A j \in Indices(paths0) :
                          j # k => paths0[j].newpath # paths0[k].newpath)
                   => paths[k].newpath = paths0[k].newpath
                /\ MovedTo(fs0, fs, paths0[k].path, paths[k].newpath)
                /\ (\A j \in Indices(paths0) :
                       ~Under(paths0[k].path, paths[j].newpath))
                   => ~Exists(fs, paths0[k].path)
                /\ \A m \in Indices(paths0[k].copies) :
                      LET c == paths0[k].copies[m]
                      IN  \/ ~LastCopyTo(k, c)
                          \/ MovedTo(fs0, fs, paths0[k].path, c)
                          \/ /\ IsDir(fs, c) /\ ~paths0[k].is_dir
                             /\ MovedTo(fs0, fs, paths0[k].path,
                                        Join(c, Name(paths[k].newpath)))

\* The file 'c a → d', 'r a → b' was run (the copy record first): a is gone,
\* its content is at b~ (b was occupied) and at d.
C11_Witness ==
    /\ pc = "done" /\ run = 1 /\ NoFailure
    /\ infile = <<Line(C, Pa, Pd), Line(R, Pa, Pb)>>
    /\ paths0 = <<[NewPath(fs0, Pa) EXCEPT !.newpath = Pb, !.copies = <<Pd>>]>>
    /\ Pa \notin DOMAIN fs
    /\ fs[Pb].data = "B"
    /\ fs[<< <<"b", Tilde>> >>].data = "A"
    /\ fs[Pd].data = "A"

\* ---- C12
\* Entities j and k were both renamed to one intended path.
SameTarget(j, k) ==
    /\ j # k
    /\ paths0[j].newpath # None /\ paths0[j].newpath = paths0[k].newpath
    /\ Succeeded(R, paths0[j].path, paths0[j].newpath)
    /\ Succeeded(R, paths0[k].path, paths0[k].newpath)

\* Entity k was renamed to a path that an object outside the batch held.
OntoOutsider(k) ==
    /\ paths0[k].newpath # None /\ paths0[k].newpath # paths0[k].path
    /\ Exists(fs0, paths0[k].newpath)
    /\ \A j \in Indices(paths0) : ~Under(paths0[j].path, paths0[k].newpath)
    /\ Succeeded(R, paths0[k].path, paths0[k].newpath)

\* The content entity k had is at the path its rename resolved: the intended
\* path or the intended name with a resolver suffix.
SurvivesResolved(k) ==
    /\ Resolved(paths0[k].newpath, paths[k].newpath)
    /\ MovedTo(fs0, fs, paths0[k].path, paths[k].newpath)

\* C12: when two entities of one batch are renamed to the same intended
\* path, or an entity is renamed to a path occupied by an object outside the
\* batch, every involved content is there after the run, each at a path of
\* its own: one object at the intended path, the other at the intended path
\* with a resolver suffix, nothing overwritten.
C12_NoDataLoss ==
    pc = "done" =>
        /\ \A j, k \in Indices(paths0) :
              SameTarget(j, k) =>
                  /\ SurvivesResolved(j) /\ SurvivesResolved(k)
                  /\ paths[j].newpath # paths[k].newpath
                  /\ Exists(fs, paths0[j].newpath)
        /\ \A k \in Indices(paths0) :
              OntoOutsider(k) =>
                  /\ MovedTo(fs0, fs, paths0[k].newpath, paths0[k].newpath)
                  /\ SurvivesResolved(k)
                  /\ paths[k].newpath # paths0[k].newpath

\* The same for the batches that make no copy.
C12_RenamesOnly ==
    (\A k \in Indices(paths0) : paths0[k].copies = <<>>) => C12_NoDataLoss

\* a and b were both renamed to d: a is at d and b at d~.
C12_Collision ==
    /\ pc = "done" /\ Len(paths0) = 2 /\ SameTarget(1, 2)
    /\ paths0[1].path = Pa /\ paths0[2].path = Pb /\ paths0[1].newpath = Pd
    /\ paths0[2].copies = <<>>
    /\ fs[Pd].data = "A" /\ fs[<< <<"d", Tilde>> >>].data = "B"

\* ---- C13
\* The name~, name~1, name~2, ... of the claim: the n-th name of the sequence.
SuffixedName(path, n) ==
    Append(Parent(path),
           Name(path) \o <<Tilde>> \o (IF n = 1 THEN <<>> ELSE <<ToString(n - 1)>>))

\* C13: inc_path returns the given path unchanged when no object, not even
\* a dangling symbolic link, occupies it; otherwise it returns the first
\* unoccupied name of the sequence name~, name~1, name~2, ... in the same
\* directory; in every case the returned path is occupied by nothing.
C13_IncPath ==
    pc = "returned" =>
        /\ out.path \notin DOMAIN fs => out.ret = out.path
        /\ out.path \in DOMAIN fs =>
              \E n \in 1..(MaxTaken + 1) :
                  /\ out.ret = SuffixedName(out.path, n)
                  /\ \A m \in 1..(n - 1) : SuffixedName(out.path, m) \in DOMAIN fs
        /\ out.ret \notin DOMAIN fs

\* inc_path was called for s/x with s/x a dangling link, s/x~ a directory
\* and s/x~1 free, and returned s/x~1.
C13_Witness ==
    /\ pc = "returned"
    /\ out.path = Psx
    /\ IsSymlink(fs, Psx) /\ ~PathExists(fs, Psx)
    /\ IsDir(fs, << <<"s">>, <<"x", Tilde>> >>)
    /\ out.ret = << <<"s">>, <<"x", Tilde, "1">> >>

\* ---- C14
\* An entity whose intended path is its current path and that has no copy
\* targets.
NoOp(p) == p.newpath = p.path /\ p.copies = <<>>

\* C14: an entity whose intended path equals its current path and that has
\* no copy targets causes no filesystem change in any of the four passes and
\* adds no element to the applied sequence or to the failed sequence.
C14_NoOpEntity ==
    [][(pc \in {"pass1", "pass2", "pass3", "pass4"} /\ NoOp(paths[i])) =>
          /\ fs' = fs
          /\ applied_actions' = applied_actions
          /\ failed_actions' = failed_actions]_vars

\* The batch of the one entity c -> c has run through the four passes:
\* the filesystem is as it was, nothing was applied and nothing failed.
C14_Witness ==
    /\ pc = "report" /\ run = 1
    /\ Len(paths) = 1 /\ paths[1].path = Pc /\ NoOp(paths[1])
    /\ fs = fs0 /\ applied_actions = <<>> /\ failed_actions = <<>>

\* ---- C15
\* The well-formed records of the lines, in order, as [action, from, to].
Records(lines) ==
    LET good == SelectSeq(lines, LAMBDA raw :
                    /\ LStrip(raw) # <<>>
                    /\ Head(LStrip(raw)) # Hash
                    /\ ActionMatch(LStrip(raw)) # {})
    IN  [k \in Indices(good) |-> CHOOSE g \in ActionMatch(LStrip(good[k])) : TRUE]

\* The copy targets the records give for the source path, in record order.
CopiesOf(recs, path) ==
    LET cs == SelectSeq(recs, LAMBDA g : g.action = C /\ PathOf(g.from) = path)
    IN  [k \in Indices(cs) |-> PathOf(cs[k].to)]

\* The actions file was read to its end.
WasRead == infile # <<>> /\ pc \notin {"start", "exited", "read_raised"}

\* C15: the records of an actions file that reference the same source path
\* accumulate onto one entity: after read_actionsfile there is exactly one
\* entity per distinct source path, carrying all copy targets of that
\* source in record order, whether the source is written as a bare file
\* name or with directory components ('./file', 'dir/file').
C15_OneEntityPerSource ==
    WasRead =>
        /\ \A j, k \in Indices(paths0) :
              j # k => paths0[j].path # paths0[k].path
        /\ \A k \in Indices(paths0) :
              paths0[k].copies = CopiesOf(Records(infile), paths0[k].path)

\* The same for files whose sources are all written as bare names.
C15_BareNames ==
    (\A k \in Indices(Records(infile)) :
        Count(Records(infile)[k].from, Slash) = 0)
    => C15_OneEntityPerSource

\* 'c a → d' and 'r a → b' were read into the one entity a -> b with the
\* copy target d.
C15_Accumulated ==
    /\ WasRead /\ run = 1
    /\ infile = <<Line(C, Pa, Pd), Line(R, Pa, Pb)>>
    /\ Len(paths0) = 1
    /\ paths0[1].path = Pa /\ paths0[1].newpath = Pb /\ paths0[1].copies = <<Pd>>

\* ---- C16
\* C16: every non-blank, non-comment line of an actions file either updates
\* one entity or is skipped and recorded as unparsable in the failed
\* sequence; no such line, a rename or copy record without destination
\* included, aborts parsing: the reader comes to the end of the file.
C16_ParsingNeverAborts ==
    (run = 1 /\ infile # <<>>) => pc # "read_raised"

\* The lines 'x a' and 'r a→d' were read: both are in the failed sequence
\* as unparsable lines and the reader came to the end of the file.
C16_Skipped ==
    /\ run = 1 /\ pc = "done"
    /\ infile = << <<"x", Space, "a">>, <<"r", Space, "a", Arrow, "d">> >>
    /\ failed_actions = << << <<"x", Space, "a">>, None, None >>,
                           << <<"r", Space, "a", Arrow, "d">>, None, None >> >>

\* ---- C17
\* The arrow glyph is in a name of the path.
HasArrow(path) ==
    path # None /\ \E k \in Indices(path) : Count(path[k], Arrow) > 0

\* The line one expects for the operation, the glyph of the names kept.
Literal(action, src, dst) ==
    action \o <<Space>> \o PathStr(src)
    \o (IF dst = None THEN <<>> ELSE <<Space, Arrow, Space>> \o PathStr(dst))

\* C17: a failed operation (delete, rename or copy) whose source or
\* destination path contains the arrow glyph is written to the recovery file
\* with the glyph preserved literally, and when it is read back the line is
\* always flagged as unparsable; it is never accepted as a valid record for
\* some other source or destination path.
C17_ArrowRejected ==
    (pc = "read" /\ (HasArrow(out.source_path) \/ HasArrow(out.target_path))) =>
        /\ out.line = Literal(out.action, out.source_path, out.target_path)
        /\ out.match = {}
        /\ out.st.paths = <<>>
        /\ Len(out.st.failed) = 1 /\ out.st.failed[1][2] = None

\* The same for renames and copies only.
C17_RenamesAndCopies ==
    (pc = "read" /\ out.action # D) => C17_ArrowRejected

\* The failed rename of 'x→y' to 'x → y' was written as 'r x→y → x → y' and
\* flagged as unparsable when read back.
C17_Flagged ==
    /\ pc = "read" /\ out.action = R
    /\ out.source_path = << <<"x", Arrow, "y">> >>
    /\ out.target_path = << <<"x", Space, Arrow, Space, "y">> >>
    /\ out.match = {}
    /\ out.st.failed = << <<out.line, None, None>> >>
    /\ out.st.paths = <<>>

\* ---- C18
\* C18: for every operation kind and every source and destination path
\* without the arrow glyph, paths with leading, trailing and inner spaces
\* included, the line written by to_actions_file is parsed by
\* read_actionsfile back into exactly the same kind, source string and
\* destination string (and so into an entity of that source with that
\* rename or copy target).
C18_RoundTrip ==
    (pc = "read" /\ ~HasArrow(out.source_path) /\ ~HasArrow(out.target_path)) =>
        /\ out.match =
              {[action |-> out.action,
                from   |-> PathStr(out.source_path),
                to     |-> IF out.target_path = None THEN NoText
                           ELSE PathStr(out.target_path)]}
        /\ out.st.out = "ok" /\ out.st.failed = <<>>
        /\ out.st.paths =
              <<[NewPath(fs, out.source_path) EXCEPT
                   !.newpath = IF out.action = R THEN out.target_path
                               ELSE IF out.action = C THEN out.source_path
                               ELSE None,
                   !.copies = IF out.action = C THEN <<out.target_path>>
                              ELSE <<>>]>>

\* A carriage return or a line feed is in a name of the path.
HasEol(path) ==
    path # None /\ \E k \in Indices(path) : Count(path[k], CR) + Count(path[k], LF) > 0

\* The same for the names that hold no line terminator.
C18_SpacedNames ==
    (pc = "read" /\ ~HasEol(out.source_path) /\ ~HasEol(out.target_path))
        => C18_RoundTrip

\* The failed rename of ' x y ' to 'x ' was written and read back with all
\* its spaces.
C18_Spaces ==
    /\ pc = "read" /\ out.action = R
    /\ out.source_path = << <<Space, "x", Space, "y", Space>> >>
    /\ out.target_path = << <<"x", Space>> >>
    /\ out.line = <<"r", Space, Space, "x", Space, "y", Space, Space, Arrow,
                    Space, "x", Space>>
    /\ out.match = {[action |-> R, from |-> <<Space, "x", Space, "y", Space>>,
                     to |-> <<"x", Space>>]}

\* ---- C19
\* The provenance lines of a file: the lines the provenance pattern matches.
ProvenanceLines(lines) == SelectSeq(lines, LAMBDA raw : WorkdirMatch(raw) # NoText)

\* The first process was given a file and has read it (or ended reading it).
FileRun == run = 1 /\ infile # <<>> /\ pc # "start"

\* The run ended in the reader, by sys.exit or by an exception, with nothing
\* done to the filesystem.
EndedUntouched ==
    /\ pc \in {"exited", "read_raised"}
    /\ fs = fs0 /\ applied_actions = <<>> /\ actions_file = NoFile

C20_Confirmation ==
    (FileRun /\ Len(ProvenanceLines(infile)) = 1) =>
        LET differs == WorkdirMatch(ProvenanceLines(infile)[1]) # Cwd
        IN  /\ differs => (Len(asked) = 1 \/ (pc = "read_raised" /\ asked = <<>>))
            /\ (differs /\ (fs # fs0 \/ applied_actions # <<>> \/ tempdirs # {}))
                  => asked = <<TRUE>>
            /\ asked = <<FALSE>> => (pc = "exited" /\ status = 0 /\ EndedUntouched)
            /\ ~differs => asked = <<>>

\* The file '# workdir: /o', 'r a → d' was read in /w, the user was asked
\* and declined: the run ended with status 0 and a as it was.
C20_Witness ==
    /\ FileRun
    /\ infile = <<WorkdirLine(Elsewhere), Line(R, Pa, Pd)>>
    /\ asked = <<FALSE>>
    /\ pc = "exited" /\ status = 0
    /\ fs = fs0 /\ Pa \in DOMAIN fs

\* The same file, the user agreed: a was renamed to d.
C20_Agreed ==
    /\ FileRun
    /\ infile = <<WorkdirLine(Elsewhere), Line(R, Pa, Pd)>>
    /\ asked = <<TRUE>>
    /\ pc = "done" /\ Pd \in DOMAIN fs /\ Pa \notin DOMAIN fs

\* ---- C21
\* C21: a run whose actions file path does not exist ends with exit status
\* 3 (sys.exit, no status of perform_actions), with no entity made and the
\* filesystem as it was; no run whose actions file exists ends with 3.
C21_MissingFile ==
    /\ (run = 1 /\ infile = NotThere /\ pc # "start") =>
          /\ pc = "exited" /\ status = 3
          /\ paths = <<>> /\ paths0 = <<>>
          /\ fs = fs0 /\ tempdirs = {}
          /\ applied_actions = <<>> /\ failed_actions = <<>>
          /\ actions_file = NoFile
          /\ stderr = 1
    /\ status = 3 => infile = NotThere

\* The run with the missing file has ended.
C21_Witness ==
    run = 1 /\ infile = NotThere /\ pc = "exited" /\ status = 3 /\ fs = fs0

\* ---- C22
\* The holding directories of filesystem f.
Holding(f) == {q \in DOMAIN f : Name(q) = TEMPDIR}

\* Entity k was moved into a holding directory by Pass 1.
Staged(k) == paths[k].temppath # None

\* Pass 3 is through with entity k: its restore and each of its copies has
\* its entry in the record of operations.
Pass3Done(k) ==
    /\ Staged(k) =>
          \E j \in Indices(log) :
              log[j].op = R /\ log[j].path = paths0[k].path /\ log[j].ok
    /\ Cardinality({j \in Indices(log) :
                       log[j].op = C /\ log[j].path = paths0[k].path})
          >= Len(paths0[k].copies)

\* C22: when perform_actions returns, no holding directory made during the
\* run exists, whether or not every operation succeeded; the holding
\* directories are still there all through Pass 3 and are removed when every
\* entity's restore and copies are done, before Pass 4 starts.
C22_HoldingDirsRemoved ==
    /\ pc \in {"pass4", "report", "done"} =>
          /\ tempdirs = {}
          /\ Holding(fs) \subseteq DOMAIN fs0
    /\ pc = "cleanup" =>
          /\ \A t \in tempdirs : IsDir(fs, t)
          /\ \A k \in Indices(paths) : Pass3Done(k)
    /\ pc \in {"pass1", "pass2", "pass3"} =>
          \A k \in Indices(paths) :
              Staged(k) => Parent(paths[k].temppath) \in tempdirs

\* A run has returned in which a rename was applied through a holding
\* directory and another operation failed.
C22_Witness ==
    /\ pc = "done" /\ failed_actions # <<>>
    /\ \E k \in Indices(paths) : Staged(k) /\ ~Exists(fs, Parent(paths[k].temppath))
    /\ Holding(fs) = {}

\* ---- C23
\* The holding directory for entity p's intended path cannot be made on f.
NoHoldingDir(f, p) ==
    /\ p.newpath # None /\ p.newpath # p.path
    /\ Mkdir(f, Join(Parent(p.newpath), TEMPDIR)).err

\* The rename of entity k is in the failed sequence.
RenameFailed(k) ==
    \E j \in Indices(failed_actions) :
        failed_actions[j] = <<R, paths0[k].path, paths0[k].newpath>>

\* C23: when Pass 1 comes to an entity whose holding directory cannot be
\* made, that step appends the rename as one 'r' operation (the entity's
\* path, its intended path) to the failed sequence, changes neither the
\* filesystem nor the applied sequence nor the entity, and goes on to the
\* next entity or pass; and when the run has returned, the object of every
\* entity whose rename is in the failed sequence is at its path with its
\* content, no rename of it is in the applied sequence, and every operation
\* of every entity of the batch has been attempted.
C23_HoldingDirFailure ==
    /\ [][(pc = "pass1" /\ NoHoldingDir(fs, paths[i])) =>
            /\ failed_actions' =
                  Append(failed_actions, <<R, paths[i].path, paths[i].newpath>>)
            /\ applied_actions' = applied_actions
            /\ fs' = fs
            /\ paths' = paths
            /\ pc' = (IF i < Len(paths) THEN "pass1" ELSE "pass2")]_vars
    /\ [](pc = "done" =>
            \A k \in Indices(paths0) :
                RenameFailed(k) =>
                    /\ MovedTo(fs0, fs, paths0[k].path, paths0[k].path)
                    /\ \A j \in Indices(applied_actions) :
                          ~(applied_actions[j][1] = R
                            /\ applied_actions[j][2] = paths0[k].path)
                    /\ Cardinality({j \in Indices(failed_actions) :
                                       /\ failed_actions[j][1] = R
                                       /\ failed_actions[j][2] = paths0[k].path}) = 1
                    /\ \A n \in Indices(paths0) :
                          \A m \in Indices(OpsOf(paths0[n])) :
                              \E j \in Indices(log) :
                                  /\ log[j].op = OpsOf(paths0[n])[m].op
                                  /\ log[j].path = OpsOf(paths0[n])[m].path
                                  /\ log[j].to = OpsOf(paths0[n])[m].to)

\* The batch [a -> s/b, b -> d] has run with s not writable: the rename of a
\* is the one failed operation, a is where it was, and b was renamed.
C23_Witness ==
    /\ pc = "done" /\ run = 1 /\ Len(paths0) = 2
    /\ paths0[1].path = Pa /\ paths0[1].newpath = Psb
    /\ paths0[2].path = Pb /\ paths0[2].newpath = Pd
    /\ failed_actions = << <<R, Pa, Psb>> >>
    /\ applied_actions = << <<R, Pb, Pd>> >>
    /\ fs[Pa].data = "A" /\ fs[Pd].data = "B"
    /\ status = 1

\* ---- C24
\* The version-control tool reported an error for the delete or the rename
\* logged at j of the version-controlled entity k.
ToolFailed(k, j) ==
    /\ paths0[k].is_git
    /\ Exists(fs0, GitLock)
    /\ log[j].path = paths0[k].path
    /\ log[j].op \in {D, R}
    /\ ~log[j].ok

\* The operation logged at j is in the failed and not in the applied
\* sequence.
OnlyInFailed(j) ==
    /\ \E m \in Indices(failed_actions) :
          failed_actions[m] = <<log[j].op, log[j].path, log[j].to>>
    /\ \A m \in Indices(applied_actions) :
          ~(applied_actions[m][1] = log[j].op
            /\ applied_actions[m][2] = log[j].path)

\* C24: for an entity flagged as version-controlled, a delete or a rename
\* for which the version-control tool reports an error is recorded in the
\* failed sequence and not in the applied sequence.
C24_ToolErrors ==
    pc = "done" =>
        \A k \in Indices(paths0) : \A j \in Indices(log) :
            ToolFailed(k, j) => OnlyInFailed(j)

\* The same of the deletes alone.
C24_Deletes ==
    pc = "done" =>
        \A k \in Indices(paths0) : \A j \in Indices(log) :
            (ToolFailed(k, j) /\ log[j].op = D) => OnlyInFailed(j)

\* The batch [a -> d] has run in a repository with a locked index: the tool
\* refused both moves, a is where it was, nothing is at d, the rename is in
\* the applied sequence, nothing is in the failed one and the status is 0.
C24_RenameUnrecorded ==
    /\ pc = "done" /\ run = 1
    /\ paths0 = <<[NewPath(fs0, Pa) EXCEPT !.newpath = Pd]>>
    /\ paths0[1].is_git
    /\ Exists(fs, Pa) /\ fs[Pa].data = "A" /\ ~Exists(fs, Pd)
    /\ applied_actions = << <<R, Pa, Pd>> >>
    /\ failed_actions = <<>>
    /\ stderr = 2
    /\ status = 0

\* ---- C25
\* The directories above path p, the working directory left out.
Ancestors(p) == {SubSeq(p, 1, n) : n \in 1..(Len(p) - 1)}

\* Entity k is to be renamed into a directory that does not exist.
IntoNewDir(k) ==
    /\ paths0[k].newpath # None
    /\ ~Exists(fs0, Parent(paths0[k].newpath))

\* The directories missing above p can be made in f: the nearest one that
\* exists is a writable directory.
Creatable(f, p) ==
    \E d \in Ancestors(p) \cup {<<>>} :
        /\ Writable(f, d)
        /\ \A e \in Ancestors(p) : Len(e) > Len(d) => ~Exists(f, e)

C25_Collision ==
    /\ pc = "done" /\ Len(paths0) = 2
    /\ paths0[1].newpath = Pnb /\ paths0[2].newpath = Pnb
    /\ paths0[1].path = Pa /\ paths0[2].path = Pb
    /\ Exists(fs, Pnb) /\ fs[Pnb].data = "A"
    /\ Exists(fs, << <<"n">>, <<"b", Tilde>> >>)
    /\ fs[<< <<"n">>, <<"b", Tilde>> >>].data = "B"

\* ---- C26
\* The reader's state before the first line.
ReaderStart ==
    [paths |-> <<>>, failed |-> <<>>, stderr |-> 0, wd |-> FALSE, out |-> "ok",
     code |-> -1, asked |-> <<>>]

\* The n-th line of the file is a 'd' record.
IsDeleteRecord(n) ==
    \E g \in ActionMatch(LStrip(RStripEol(infile[n]))) : g.action = D

\* The source named by the record in the n-th line.
SourceOf(n) ==
    (CHOOSE g \in ActionMatch(LStrip(RStripEol(infile[n]))) : TRUE).from

\* The reader's state after the first n lines of the file.
ReadTo(n) == read_actionsfile(fs0, Cwd, TRUE, ReaderStart, SubSeq(infile, 1, n))

\* No line before the n-th is a record of the same source.
FirstOfSource(n) ==
    \A m \in 1..(n - 1) :
        \A g \in ActionMatch(LStrip(RStripEol(infile[m]))) :
            Name(PathOf(g.from)) # Name(PathOf(SourceOf(n)))

\* C26: for every actions file, after a 'd <source>' record has been
\* processed the entity for that source has no intended path, whatever
\* records for the same source come before the 'd' record.
C26_DeleteRecord ==
    (WasRead /\ infile # NotThere) =>
        \A n \in Indices(infile) :
            (IsDeleteRecord(n) /\ ReadTo(n).out = "ok") =>
                LET ps == ReadTo(n).paths
                    k  == get(ps, SourceOf(n))
                IN  k # 0 /\ ps[k].newpath = None

\* The same of the 'd' records that are the first record of their source.
C26_FirstRecord ==
    (WasRead /\ infile # NotThere) =>
        \A n \in Indices(infile) :
            (IsDeleteRecord(n) /\ FirstOfSource(n) /\ ReadTo(n).out = "ok") =>
                LET ps == ReadTo(n).paths
                    k  == get(ps, SourceOf(n))
                IN  k # 0 /\ ps[k].newpath = None

\* The file 'r a → b', 'd a' has run: the entity of a kept the intended path
\* b, a was renamed (to b~, b being there) and not deleted, nothing is in
\* the failed sequence and the status is 0.
C26_DeleteLost ==
    /\ pc = "done" /\ run = 1
    /\ infile = <<Line(R, Pa, Pb), Line(D, Pa, None)>>
    /\ Len(paths0) = 1 /\ paths0[1].newpath = Pb
    /\ applied_actions = << <<R, Pa, << <<"b", Tilde>> >> >> >>
    /\ failed_actions = <<>>
    /\ Exists(fs, << <<"b", Tilde>> >>) /\ fs[<< <<"b", Tilde>> >>].data = "A"
    /\ status = 0

\* ---- C27
\* The line is blank or a '#' comment and no provenance line.
IsFiller(raw) ==
    /\ WorkdirMatch(raw) = NoText
    /\ \/ LStrip(RStripEol(raw)) = <<>>
       \/ Head(LStrip(RStripEol(raw))) = Hash

\* The file without its blank and comment lines.
WithoutFillers(lines) == SelectSeq(lines, LAMBDA raw : ~IsFiller(raw))

\* The reader has just returned (or ended the run): no pass has taken a
\* step yet.  Every run on a file goes through such a state, and the file,
\* the directory it was read in and the entities read stay as they are for
\* the rest of the run.
ReaderReturned ==
    /\ infile # <<>> /\ infile # NotThere /\ pc # "start"
    /\ fs = fs0 /\ i = 1 /\ tempdirs = {} /\ applied_actions = <<>>
    /\ actions_file = NoFile

\* C27: blank lines and '#' comment lines that are no provenance lines
\* (comment lines with the arrow included), anywhere in an actions file,
\* change nothing: the reader ends as it does on the file without them (the
\* same entities, the same failed sequence, the same messages, the same
\* end), and the entities handed to the engine are those of the file
\* without them.
C27_FillersIgnored ==
    ReaderReturned =>
        /\ \A yes \in BOOLEAN :
              read_actionsfile(fs0, Cwd, yes, ReaderStart, infile)
                = read_actionsfile(fs0, Cwd, yes, ReaderStart,
                                   WithoutFillers(infile))
        /\ WasRead =>
              paths0 = read_actionsfile(fs0, Cwd, TRUE, ReaderStart,
                                        WithoutFillers(infile)).paths

\* A file with a comment that holds the arrow, a blank line and a record
\* has run: the one entity is the record's, nothing failed.
C27_Witness ==
    /\ pc = "done" /\ run = 1
    /\ infile = << <<Hash, Space, "a", Space, Arrow, Space, "b">>, <<>>,
                   Line(C, Pa, Pd) >>
    /\ paths0 = <<[NewPath(fs0, Pa) EXCEPT !.newpath = Pa, !.copies = <<Pd>>]>>
    /\ failed_actions = <<>>
    /\ applied_actions = << <<C, Pa, Pd>> >>
    /\ status = 0

\* ---- C28
\* Entity k is to be renamed.
HasRename(k) ==
    paths0[k].newpath # None /\ paths0[k].newpath # paths0[k].path

\* C28 as stated: while an entity is moved from a holding directory to its
\* final destination, no entity of the batch that has an intended rename is
\* still at its original path.
C28_AsStated ==
    (pc = "pass3" /\ Staged(i)) =>
        \A k \in Indices(paths) : HasRename(k) => Staged(k)

\* Something of another entity was put at or below the original path of
\* entity k (a restored object, a staged one, or the directories made for
\* its holding directory).
Reoccupied(k) ==
    \E j \in Indices(paths) :
        /\ j # k /\ paths[j].newpath # None
        /\ \/ Under(paths0[k].path, paths[j].newpath)
           \/ Staged(j) /\ Under(paths0[k].path, paths[j].temppath)

\* C28: restores happen only after Pass 1 has come to every entity of the
\* batch.  While an entity is moved from a holding directory to its final
\* destination, every entity with an intended rename has either vacated its
\* original name (it was moved to a holding directory, and nothing is at its
\* original path unless another entity's move put it there) or is in the
\* failed sequence, still at its path with its content, because its holding
\* directory could not be made; only such a failed entity can occupy the
\* intended path of a restore.  No rename is applied while Pass 1 and Pass 2
\* run.
C28_RestoresAfterStaging ==
    /\ pc \in {"pass1", "pass2"} =>
           \A j \in Indices(applied_actions) : applied_actions[j][1] # R
    /\ (pc = "pass3" /\ Staged(i)) =>
        \A k \in Indices(paths) :
            HasRename(k) =>
                \/ /\ Staged(k)
                   /\ (Exists(fs, paths0[k].path) => Reoccupied(k))
                \/ /\ ~Staged(k)
                   /\ RenameFailed(k)
                   /\ MovedTo(fs0, fs, paths0[k].path, paths0[k].path)

\* Pass 3 is about to restore b, renamed to a, while a, whose holding
\* directory in s could not be made, is still at its path.
C28_Occupied ==
    /\ pc = "pass3" /\ i = 2 /\ Len(paths) = 2
    /\ paths0[1].path = Pa /\ paths0[1].newpath = Psb
    /\ paths0[2].path = Pb /\ paths0[2].newpath = Pa
    /\ Staged(2) /\ ~Staged(1)
    /\ Exists(fs, Pa) /\ fs[Pa].data = "A"

\* Pass 3 is about to restore the first entity of the swap [a -> b, b -> a]:
\* both are in the holding directory, neither name is taken.
C28_Witness ==
    /\ pc = "pass3" /\ i = 1 /\ Len(paths) = 2
    /\ paths0[1].path = Pa /\ paths0[1].newpath = Pb
    /\ paths0[2].path = Pb /\ paths0[2].newpath = Pa
    /\ Staged(1) /\ Staged(2)
    /\ ~Exists(fs, Pa) /\ ~Exists(fs, Pb)

\* ---- C29
\* The copies of entity k that the step appends to the applied sequence.
AppliedNow(k) ==
    {c \in {paths[k].copies[m] : m \in Indices(paths[k].copies)} :
        \E j \in (Len(applied_actions) + 1)..Len(applied_actions') :
            applied_actions'[j] = <<C, paths[k].path, c>>}

\* After the step the target c holds the content that the object of entity
\* k had when the run began: as c itself or, when c was a directory and the
\* entity is a file, inside c.
HoldsOwn(k, c) ==
    \/ MovedTo(fs0, fs', paths0[k].path, c)
    \/ /\ IsDir(fs, c) /\ ~paths0[k].is_dir
       /\ \E q \in DOMAIN fs' :
             Parent(q) = c /\ MovedTo(fs0, fs', paths0[k].path, q)

\* C29: every copy that a Pass 3 step records as applied leaves at its
\* target the content of the entity's own object, whether the entity's
\* rename was applied, failed, or there was none.
C29_OwnContent ==
    [][(pc = "pass3" /\ pc' # "raised") =>
          \A c \in AppliedNow(i) : HoldsOwn(i, c)]_vars

\* What holds: an applied copy of an entity whose rename has not failed
\* carries the entity's own content.
C29_WhenPlaced ==
    [][(pc = "pass3" /\ pc' # "raised" /\ ~RenameFailed(i)) =>
          \A c \in AppliedNow(i) : HoldsOwn(i, c)]_vars

\* The batch [a -> s/k, copied to e] was run with s read-only: the rename is
\* in the failed sequence, a is where it was, and the copy, recorded as
\* applied, left the content of s/k at e.
C29_Unrelated ==
    /\ pc = "done" /\ infile = <<>> /\ Len(paths0) = 1
    /\ paths0[1].path = Pa /\ paths0[1].newpath = Psk
    /\ paths0[1].copies = <<Pe>>
    /\ failed_actions = << <<R, Pa, Psk>> >>
    /\ applied_actions = << <<C, Pa, Pe>> >>
    /\ Exists(fs, Pa) /\ fs[Pa].data = "A"
    /\ Exists(fs, Pe) /\ fs[Pe].data = "K"

\* ---- C30
\* Entity k is a directory that is to be deleted.
DirToDelete(k) == paths[k].is_dir /\ paths[k].newpath = None

\* The path holds a directory that is not empty.
NonEmptyDir(f, p) == IsDir(f, p) /\ Kids(f, p) # {}

\* C30: Pass 1 leaves a directory entity without intended rename alone
\* (nothing is removed, nothing recorded); without recursive deletion,
\* Pass 2 leaves a directory that is not empty and its content as they are
\* and records nothing, and Pass 4, finding it not empty again, leaves them
\* as they are and appends its delete to the failed sequence; and when the
\* run has returned, every such directory that is still there and not empty
\* has its delete in the failed sequence.
C30_NonEmptyDirectory ==
    /\ [][(pc = "pass1" /\ DirToDelete(i) /\ IsDir(fs, paths[i].path)) =>
             /\ fs' = fs
             /\ applied_actions' = applied_actions
             /\ failed_actions' = failed_actions]_vars
    /\ [][(pc = "pass2" /\ DirToDelete(i) /\ ~recurse
           /\ NonEmptyDir(fs, paths[i].path)) =>
             /\ fs' = fs
             /\ paths'[i].is_dir
             /\ applied_actions' = applied_actions
             /\ failed_actions' = failed_actions]_vars
    /\ [][(pc = "pass4" /\ DirToDelete(i) /\ ~recurse
           /\ NonEmptyDir(fs, paths[i].path)) =>
             /\ fs' = fs
             /\ applied_actions' = applied_actions
             /\ failed_actions' =
                   Append(failed_actions, <<D, paths[i].path, None>>)]_vars
    /\ [](pc = "done" /\ ~recurse =>
             \A k \in Indices(paths0) :
                 (/\ paths0[k].is_dir /\ paths0[k].newpath = None
                  /\ NonEmptyDir(fs, paths0[k].path)) =>
                     /\ MovedTo(fs0, fs, paths0[k].path, paths0[k].path)
                     /\ \E j \in Indices(failed_actions) :
                           failed_actions[j] = <<D, paths0[k].path, None>>
                     /\ \A j \in Indices(applied_actions) :
                           applied_actions[j] # <<D, paths0[k].path, None>>)

\* The directory s, holding k, was to be deleted without recursion in a
\* batch run: it is there with its content and its delete is the failed
\* operation.
C30_Witness ==
    /\ pc = "done" /\ infile = <<>> /\ ~recurse
    /\ Len(paths0) = 1 /\ paths0[1].path = Ps /\ paths0[1].newpath = None
    /\ paths0[1].is_dir
    /\ Exists(fs, Psk) /\ fs[Psk].data = "K"
    /\ failed_actions = << <<D, Ps, None>> >>
    /\ applied_actions = <<>>

\* ---- C31
\* The number of records equal to rec in the sequence.
Times(seq, rec) == Cardinality({j \in Indices(seq) : seq[j] = rec})

\* C31: a directory entity without intended rename gets one outcome record
\* in a run.  The Pass 2 step that removes it appends one applied delete
\* and reclassifies it; a Pass 2 step that does not remove it records
\* nothing; Pass 4 passes over a reclassified entity and appends exactly one
\* record, applied or failed, for one that is still a directory; and when
\* the run has returned, the applied and failed sequences together hold its
\* delete exactly once.
C31_OneOutcome ==
    /\ [][(pc = "pass2" /\ DirToDelete(i)) =>
             \/ /\ ~Exists(fs', paths[i].path)
                /\ ~paths'[i].is_dir
                /\ applied_actions' =
                      Append(applied_actions, <<D, paths[i].path, None>>)
                /\ failed_actions' = failed_actions
             \/ /\ Exists(fs, paths[i].path) => Exists(fs', paths[i].path)
                /\ paths'[i].is_dir
                /\ applied_actions' = applied_actions
                /\ failed_actions' = failed_actions]_vars
    /\ [][(pc = "pass4" /\ paths0[i].is_dir /\ paths0[i].newpath = None) =>
             IF paths[i].is_dir
             THEN LET rec == <<D, paths[i].path, None>>
                  IN  \/ /\ applied_actions' = Append(applied_actions, rec)
                         /\ failed_actions' = failed_actions
                      \/ /\ failed_actions' = Append(failed_actions, rec)
                         /\ applied_actions' = applied_actions
             ELSE /\ fs' = fs
                  /\ applied_actions' = applied_actions
                  /\ failed_actions' = failed_actions]_vars
    /\ [](pc = "done" =>
             \A k \in Indices(paths0) :
                 (paths0[k].is_dir /\ paths0[k].newpath = None) =>
                     Times(applied_actions \o failed_actions,
                           <<D, paths0[k].path, None>>) = 1)

\* The directory s was deleted recursively in Pass 2: one applied delete,
\* the entity reclassified, nothing more recorded by Pass 4.
C31_Witness ==
    /\ pc = "done" /\ infile = <<>> /\ recurse
    /\ Len(paths0) = 1 /\ paths0[1].path = Ps /\ paths0[1].newpath = None
    /\ paths0[1].is_dir /\ ~paths[1].is_dir
    /\ ~Exists(fs, Ps)
    /\ applied_actions = << <<D, Ps, None>> >>
    /\ failed_actions = <<>>

\* ---- C32
\* Every object that was inside the directory of entity k is itself an
\* entity of the batch that is deleted or renamed out of the directory.
Emptied(k) ==
    \A q \in DOMAIN fs0 :
        (Under(paths0[k].path, q) /\ q # paths0[k].path) =>
            \E j \in Indices(paths0) :
                /\ paths0[j].path = q
                /\ \/ paths0[j].newpath = None
                   \/ ~Under(paths0[k].path, paths0[j].newpath)

\* The delete of entity k was applied and its directory is gone.
DeleteApplied(k) ==
    /\ ~Exists(fs, paths0[k].path)
    /\ \E j \in Indices(applied_actions) :
          applied_actions[j] = <<D, paths0[k].path, None>>

\* C32: without recursive deletion, in every returned run of a batch, in
\* whatever order its entities are, the delete of a directory succeeds when
\* every object inside it, at any depth, is deleted or renamed out of it by
\* the batch.
C32_EmptiedDirectory ==
    (pc = "done" /\ ~recurse /\ infile = <<>>) =>
        \A k \in Indices(paths0) :
            (paths0[k].is_dir /\ paths0[k].newpath = None /\ Emptied(k)) =>
                DeleteApplied(k)

\* What holds: the delete succeeds when, besides, no directory inside the
\* directory holds a directory itself (chains of at most two levels).
C32_TwoLevels ==
    (pc = "done" /\ ~recurse /\ infile = <<>>) =>
        \A k \in Indices(paths0) :
            (/\ paths0[k].is_dir /\ paths0[k].newpath = None /\ Emptied(k)
             /\ \A q \in DOMAIN fs0 :
                   (Under(paths0[k].path, q) /\ IsDir(fs0, q)) =>
                       Len(q) <= Len(paths0[k].path) + 1) =>
                DeleteApplied(k)

\* The batch [s, s/k, s/t, s/t/u], all deleted, parents first, has run
\* without recursion: k, u and t are gone, s is empty, and its delete is
\* the failed operation.
C32_ParentFirst ==
    /\ pc = "done" /\ ~recurse /\ Len(paths0) = 4
    /\ paths0[1].path = Ps /\ paths0[2].path = Psk
    /\ paths0[3].path = Pst /\ paths0[4].path = Pstu
    /\ \A k \in 1..4 : paths0[k].newpath = None
    /\ Exists(fs, Ps) /\ Kids(fs, Ps) = {}
    /\ failed_actions = << <<D, Ps, None>> >>
    /\ status = 1

\* ---- C33
\* The records of the file whose source path is path, in order.
RecordsOf(path) ==
    SelectSeq(Records(infile), LAMBDA g : PathOf(g.from) = path)

\* C33: after read_actionsfile every entity carries only what the records
\* of its own path gave it (each copy target is the target of a copy record
\* of that path, an intended path other than its own is the target of a
\* rename record of that path), and every rename and copy record has its
\* effect on an entity of its source path (the copy target is among that
\* entity's copies, the target of the last rename record is an intended
\* path of an entity of that path).
C33_RecordsOnOwnEntity ==
    WasRead =>
        /\ \A k \in Indices(paths0) :
              LET own == RecordsOf(paths0[k].path)
              IN  /\ \A m \in Indices(paths0[k].copies) :
                        \E n \in Indices(own) :
                            own[n].action = C
                            /\ PathOf(own[n].to) = paths0[k].copies[m]
                  /\ paths0[k].newpath \notin {None, paths0[k].path} =>
                        \E n \in Indices(own) :
                            own[n].action = R
                            /\ PathOf(own[n].to) = paths0[k].newpath
        /\ \A n \in Indices(Records(infile)) :
              LET g   == Records(infile)[n]
                  own == {k \in Indices(paths0) :
                             paths0[k].path = PathOf(g.from)}
              IN  /\ g.action = C =>
                        \E k \in own :
                            \E m \in Indices(paths0[k].copies) :
                                paths0[k].copies[m] = PathOf(g.to)
                  /\ (g.action = R
                      /\ \A j \in Indices(Records(infile)) :
                            (j > n /\ Records(infile)[j].action = R) =>
                                PathOf(Records(infile)[j].from) # PathOf(g.from))
                     => \E k \in own : paths0[k].newpath = PathOf(g.to)

\* What holds: the same for files in which no two records name sources of
\* different paths with the same final component.
C33_DistinctNames ==
    (\A j, n \in Indices(Records(infile)) :
        Name(PathOf(Records(infile)[j].from))
            = Name(PathOf(Records(infile)[n].from))
        => PathOf(Records(infile)[j].from) = PathOf(Records(infile)[n].from))
    => C33_RecordsOnOwnEntity

\* The file 'c s/k → e', 'r k → d' has run: the one entity is s/k, with the
\* intended path d that the record for k named, and s/k was moved to d.
C33_WrongEntity ==
    /\ pc = "done" /\ run = 1
    /\ infile = <<Line(C, Psk, Pe), Line(R, Pk, Pd)>>
    /\ Len(paths0) = 1 /\ paths0[1].path = Psk /\ paths0[1].newpath = Pd
    /\ paths0[1].copies = <<Pe>>
    /\ ~Exists(fs, Psk) /\ Exists(fs, Pd) /\ fs[Pd].data = "K"
    /\ failed_actions = <<>> /\ status = 0

\* ---- C34
\* The record (of the applied or of the failed sequence) is a record of the
\* requested operation x: the same operation on the same path with the same
\* target, a rename also with the target its restore resolved.
RecordOf(rec, x) ==
    /\ rec[1] = x.op /\ rec[2] = x.path
    /\ \/ rec[3] = x.to
       \/ x.op = R /\ rec[3] # None /\ Resolved(x.to, rec[3])

\* The records of the failed sequence that are operations (an unparsable
\* line of the actions file is recorded with no path).
FailedRecords == SelectSeq(failed_actions, LAMBDA rec : rec[2] # None)

\* How many records of the sequence are records of x.
RecordsFor(seq, x) == Cardinality({j \in Indices(seq) : RecordOf(seq[j], x)})

\* C34: when perform_actions has returned, the applied and the failed
\* sequence together hold, for every requested operation (each delete,
\* each rename to another path, each copy target, of each entity), as many
\* records as the operation was requested, one each, never one in both
\* sequences for one request; and every record is of a requested
\* operation.
C34_OneRecordEach ==
    pc = "done" =>
        LET req == RequestedOps(paths0)
        IN  /\ \A n \in Indices(req) :
                  RecordsFor(applied_actions, req[n])
                    + RecordsFor(FailedRecords, req[n])
                  = Occurrences(req, req[n])
            /\ \A j \in Indices(applied_actions) :
                  \E n \in Indices(req) : RecordOf(applied_actions[j], req[n])
            /\ \A j \in Indices(FailedRecords) :
                  \E n \in Indices(req) : RecordOf(FailedRecords[j], req[n])

\* A batch of a failed rename, an applied copy of the same entity and an
\* applied delete has returned: three requests, three records.
C34_Witness ==
    /\ pc = "done" /\ infile = <<>> /\ Len(RequestedOps(paths0)) = 3
    /\ Len(applied_actions) = 2 /\ Len(failed_actions) = 1
    /\ \E k \in Indices(paths0) :
          /\ failed_actions[1] = <<R, paths0[k].path, paths0[k].newpath>>
          /\ \E j \in Indices(applied_actions) :
                applied_actions[j][1] = C /\ applied_actions[j][2] = paths0[k].path
    /\ \E j \in Indices(applied_actions) : applied_actions[j][1] = D

\* ---- C35
\* C35: when the holding directories are about to be removed, no entity's
\* object is inside any of them: whatever is inside one was there before
\* the run, and every entity that was moved into one has an applied rename
\* and is no longer there; and the step that removes them removes nothing
\* outside them.
C35_HoldingDirsEmpty ==
    /\ [](pc = "cleanup" =>
            /\ \A t \in tempdirs : \A q \in DOMAIN fs :
                  (Under(t, q) /\ q # t) =>
                      q \in DOMAIN fs0 /\ fs[q] = fs0[q]
            /\ \A k \in Indices(paths) :
                  Staged(k) =>
                      /\ paths[k].temppath \notin DOMAIN fs
                      /\ \E j \in Indices(applied_actions) :
                            applied_actions[j]
                              = <<R, paths[k].path, paths[k].newpath>>)
    /\ [][pc = "cleanup" =>
            /\ DOMAIN fs' \subseteq DOMAIN fs
            /\ \A q \in DOMAIN fs \ DOMAIN fs' :
                  \E t \in tempdirs : Under(t, q)
            /\ tempdirs \cap DOMAIN fs' = {}
            /\ \A q \in DOMAIN fs' : fs'[q] = fs[q]]_vars

\* The swap [a -> b, b -> a] is about to be cleaned up: both entities went
\* through the holding directory, which is there and empty.
C35_Witness ==
    /\ pc = "cleanup" /\ Len(paths) = 2
    /\ paths0[1].path = Pa /\ paths0[1].newpath = Pb
    /\ paths0[2].path = Pb /\ paths0[2].newpath = Pa
    /\ Staged(1) /\ Staged(2)
    /\ tempdirs = {<< <<".tmp-edir">> >>}
    /\ Exists(fs, << <<".tmp-edir">> >>)
    /\ Kids(fs, << <<".tmp-edir">> >>) = {}
    /\ fs[Pa].data = "B" /\ fs[Pb].data = "A"

\* ---- C36
\* The path was there when the run began and is neither the path of an
\* entity nor inside the directory of one.
Outsider(q) ==
    /\ q \in DOMAIN fs0
    /\ \A k \in Indices(paths0) : ~Under(paths0[k].path, q)

\* C36: throughout a run, every object that was there when the run began
\* and is neither an entity of the batch nor inside an entity's directory
\* stays where it is, as it is: no copy and no rename overwrites it, and
\* the cleanup does not remove it.
C36_OutsidersKept ==
    \A q \in DOMAIN fs0 :
        Outsider(q) => q \in DOMAIN fs /\ fs[q] = fs0[q]

\* What holds: an object outside the batch is kept unless it lies at a
\* copy target or at or in a holding directory of the run.
C36_KeptElsewhere ==
    \A q \in DOMAIN fs0 :
        (/\ Outsider(q)
         /\ \A k \in Indices(paths0) :
               /\ \A m \in Indices(paths0[k].copies) :
                     ~Under(paths0[k].copies[m], q)
               /\ paths0[k].newpath # None =>
                     ~Under(Join(Parent(paths0[k].newpath), TEMPDIR), q))
        => q \in DOMAIN fs /\ fs[q] = fs0[q]

\* The entity a, not renamed, was copied to c, a file that was there: the
\* copy is applied, nothing failed, and c holds the content of a.
C36_CopyOverwrote ==
    /\ pc = "done" /\ infile = <<>> /\ Len(paths0) = 1
    /\ paths0[1].path = Pa /\ paths0[1].newpath = Pa
    /\ paths0[1].copies = <<Pc>>
    /\ fs0[Pc].data = "C" /\ fs[Pc].data = "A"
    /\ applied_actions = << <<C, Pa, Pc>> >>
    /\ failed_actions = <<>> /\ status = 0

\* The entity a was renamed to d in a directory that held a directory with
\* the holding directory's name and a file x in it: both are gone.
C36_CleanupRemoved ==
    /\ pc = "done" /\ infile = <<>> /\ Len(paths0) = 1
    /\ paths0[1].path = Pa /\ paths0[1].newpath = Pd
    /\ paths0[1].copies = <<>>
    /\ Ptmpx \in DOMAIN fs0
    /\ Ptmp \notin DOMAIN fs /\ Ptmpx \notin DOMAIN fs
    /\ failed_actions = <<>> /\ status = 0

\* ---- C37
\* C37: for every working directory W, the provenance pattern matches the
\* header line create_actions_file writes in W and yields W, and reading
\* the line while the current directory differs from W asks for
\* confirmation.
C37_HeaderRecognised ==
    pc = "header_read" =>
        /\ out.match = out.workdir
        /\ out.workdir # out.cwd => out.st.asked = <<out.yes>>

\* What holds: the same for working directories without whitespace in
\* their path.
C37_PlainDirectories ==
    (pc = "header_read" /\ Count(out.workdir, Space) = 0) =>
        /\ out.match = out.workdir
        /\ out.workdir # out.cwd => out.st.asked = <<out.yes>>
        /\ out.workdir = out.cwd => out.st.asked = <<>>

\* The header written in '/w x' was read in '/w': the pattern did not match
\* the line, nothing was asked, and the reader went on.
C37_Unrecognised ==
    /\ pc = "header_read"
    /\ out.workdir = Spaced /\ out.cwd = Cwd
    /\ out.match = NoText
    /\ out.st.asked = <<>> /\ out.st.out = "ok" /\ ~out.st.wd

\* ---- C38
\* C38: every call of inc_path, for every path and every filesystem,
\* eventually returns a path.
C38_Terminates == (pc = "inc_loop") ~> (pc = "returned")

\* What holds: a call for a path that has a name returns, ...
C38_NamedPaths == (pc = "inc_loop" /\ out.name # <<>>) ~> (pc = "returned")

\* ... after at most as many iterations as there are objects in the
\* filesystem, and with the path the function computes in one go.
C38_Bounded ==
    /\ pc = "inc_loop" => out.c <= Cardinality(DOMAIN fs)
    /\ (pc = "returned" /\ out.path # <<>>) => out.ret = inc_path(fs, out.path)

\* inc_path was called for the working directory itself: the directory
\* exists, it has no name to add a suffix to, and the call ended with the
\* exception of with_name.
C38_Nameless ==
    /\ pc = "inc_raised"
    /\ out.path = <<>> /\ out.c = 0 /\ out.cur = <<>>

\* ---- C39
\* The operations of this call that failed, as records, in order.
OwnFailed ==
    LET bad == SelectSeq(log, LAMBDA e : ~e.ok)
    IN  [k \in Indices(bad) |-> <<bad[k].op, bad[k].path, bad[k].to>>]

\* The status and the recovery file that the operations of this call
\* alone account for.
OwnStatus ==
    LET bad  == \E k \in Indices(log) : ~log[k].ok
        good == \E k \in Indices(log) : log[k].ok
    IN  IF bad THEN (IF good THEN 1 ELSE 2) ELSE 0

OwnFile ==
    IF OwnFailed = <<>> THEN NoFile
    ELSE [at |-> file_place(fs), lines |-> write_actions_file(Cwd, OwnFailed)]

\* C39: when perform_actions is called a second time in one process, the
\* status it returns and the recovery file it writes are those its own
\* operations account for, as in a first call.
C39_CallsIndependent ==
    (pc = "done" /\ run = 2) => status = OwnStatus /\ actions_file = OwnFile

\* What holds: the same of the first call of a process.
C39_FirstCall ==
    (pc = "done" /\ run = 1) => status = OwnStatus /\ actions_file = OwnFile

\* After a call in which the delete of s failed, a second call renamed a to
\* d, its only operation: it returned 1 and wrote a recovery file that
\* holds the delete of s.
C39_Leaked ==
    /\ pc = "done" /\ run = 2
    /\ failed1 = << <<D, Ps, None>> >>
    /\ Len(paths0) = 1 /\ paths0[1].path = Pa /\ paths0[1].newpath = Pd
    /\ paths0[1].copies = <<>>
    /\ log = <<Entry(R, paths0[1], Pd, TRUE)>>
    /\ status = 1
    /\ actions_file.at = "cwd"
    /\ actions_file.lines = write_actions_file(Cwd, << <<D, Ps, None>> >>)

====
